---- MODULE Spec2Model ----
(***************************************************************************)
(* The page-load estimator of lighthouse-core: the TCP connection model    *)
(* (TcpConnection) and the discrete-event scheduler (Estimator) that       *)
(* steps a dependency graph of network requests through it.                *)
(*                                                                         *)
(* Time is in milliseconds.  The round-trip times used are even, so that   *)
(* the one-way latency rtt / 2 and every time derived from it is an        *)
(* integer.  A throughput is kept as [num, den], which stands for the      *)
(* double num / den: the scheduler divides the configured throughput by    *)
(* the number of nodes in flight.                                          *)
(*                                                                         *)
(* The source file also holds the Chrome launcher (LaunchManager and       *)
(* Launcher), which is modelled after the estimator.                       *)
(***************************************************************************)
EXTENDS Integers, Sequences, FiniteSets, TLC

INITIAL_CONGESTION_WINDOW == 10
TCP_SEGMENT_SIZE == 1460

DEFAULT_MAXIMUM_CONCURRENT_REQUESTS == 10
DEFAULT_RESPONSE_TIME == 30
DEFAULT_RTT == 150
DEFAULT_THROUGHPUT == 1600 * 1024

\* `depth > 10000` in estimate()
MaximumDepth == 10000

\* JavaScript's Infinity: larger than every time and byte count of the model
Infinity == 1000000000

IsFinite(x) == x # Infinity
Min(a, b) == IF a <= b THEN a ELSE b
Max(a, b) == IF a >= b THEN a ELSE b
Plus(a, b) == IF a = Infinity \/ b = Infinity THEN Infinity ELSE a + b
Minus(a, b) == IF a = Infinity THEN Infinity ELSE a - b
\* Math.ceil(a / b) for a >= 0, b > 0
Ceil(a, b) == (a + b - 1) \div b

Range(s) == {s[i] : i \in 1..Len(s)}
\* Set.prototype.add / delete on an insertion-ordered Set
SetAdd(s, x) == IF x \in Range(s) THEN s ELSE Append(s, x)
SetDelete(s, x) == SelectSeq(s, LAMBDA y : y # x)
EmptyMap == [x \in {} |-> 0]

RECURSIVE Ascending(_)
Ascending(S) ==
  IF S = {} THEN <<>>
  ELSE LET m == CHOOSE x \in S : \A y \in S : x <= y
       IN <<m>> \o Ascending(S \ {m})

(***************************************************************************)
(* JavaScript numbers.  Times and byte counts are integers, on which the   *)
(* double-precision operations of the code are exact.  The two quotients   *)
(* of the connection model (lines 21-34) are not integers: they are        *)
(* computed here as IEEE 754 doubles, rounded to nearest, ties to even,    *)
(* after every operation.  A natural number is a sequence of digits in     *)
(* base 2^15, lowest first, without leading zero digits; a double is       *)
(* [m, e] with the value m * 2^e, where m has at most 53 significant bits. *)
(***************************************************************************)
Base == 2^15

RECURSIVE Trim(_)
Trim(n) ==
  IF n = <<>> THEN n
  ELSE IF n[Len(n)] = 0 THEN Trim(SubSeq(n, 1, Len(n) - 1)) ELSE n

RECURSIVE FromInt(_)
FromInt(i) == IF i = 0 THEN <<>> ELSE <<i % Base>> \o FromInt(i \div Base)

RECURSIVE ToInt(_)
ToInt(n) == IF n = <<>> THEN 0 ELSE n[1] + Base * ToInt(Tail(n))

RECURSIVE BitsOfDigit(_)
BitsOfDigit(d) == IF d = 0 THEN 0 ELSE 1 + BitsOfDigit(d \div 2)

\* the number of significant bits of n
Bits(n) == IF n = <<>> THEN 0 ELSE 15 * (Len(n) - 1) + BitsOfDigit(n[Len(n)])

\* n * d + carry for a digit d
RECURSIVE MulDigit(_, _, _)
MulDigit(n, d, carry) ==
  IF n = <<>> THEN FromInt(carry)
  ELSE <<(n[1] * d + carry) % Base>> \o MulDigit(Tail(n), d, (n[1] * d + carry) \div Base)

RECURSIVE AddDigits(_, _, _)
AddDigits(a, b, carry) ==
  IF a = <<>> /\ b = <<>> THEN FromInt(carry)
  ELSE LET x == IF a = <<>> THEN 0 ELSE a[1]
           y == IF b = <<>> THEN 0 ELSE b[1]
       IN <<(x + y + carry) % Base>>
            \o AddDigits(IF a = <<>> THEN a ELSE Tail(a), IF b = <<>> THEN b ELSE Tail(b),
                         (x + y + carry) \div Base)

\* a - b for a >= b
RECURSIVE SubDigits(_, _, _)
SubDigits(a, b, borrow) ==
  IF a = <<>> THEN <<>>
  ELSE LET y == (IF b = <<>> THEN 0 ELSE b[1]) + borrow
       IN <<(a[1] - y) % Base>>
            \o SubDigits(Tail(a), IF b = <<>> THEN b ELSE Tail(b), IF a[1] < y THEN 1 ELSE 0)

RECURSIVE Mul(_, _)
Mul(a, b) ==
  IF a = <<>> \/ b = <<>> THEN <<>>
  ELSE AddDigits(MulDigit(a, b[1], 0),
                 IF Len(b) = 1 THEN <<>> ELSE <<0>> \o Mul(a, Tail(b)), 0)

\* a >= b
RECURSIVE AtLeast(_, _)
AtLeast(a, b) ==
  IF Len(a) # Len(b) THEN Len(a) > Len(b)
  ELSE IF a = <<>> THEN TRUE
  ELSE IF a[Len(a)] # b[Len(b)] THEN a[Len(a)] > b[Len(b)]
  ELSE AtLeast(Trim(SubSeq(a, 1, Len(a) - 1)), Trim(SubSeq(b, 1, Len(b) - 1)))

\* quotient and remainder of n by a divisor d <= 2^15; r is the remainder of the digits
\* above n
RECURSIVE DivDigit(_, _, _)
DivDigit(n, d, r) ==
  IF n = <<>> THEN [q |-> <<>>, r |-> r]
  ELSE LET cur == r * Base + n[Len(n)]
           rest == DivDigit(SubSeq(n, 1, Len(n) - 1), d, cur % d)
       IN [q |-> Append(rest.q, cur \div d), r |-> rest.r]

\* the largest digit g + x, x < 2^(j + 1), with d * (g + x) <= n; n < d * 2^15
RECURSIVE QuotientDigit(_, _, _, _)
QuotientDigit(n, d, g, j) ==
  IF j < 0 THEN g
  ELSE IF AtLeast(n, Trim(MulDigit(d, g + 2^j, 0)))
       THEN QuotientDigit(n, d, g + 2^j, j - 1)
       ELSE QuotientDigit(n, d, g, j - 1)

\* long division of n by d, digit by digit from the highest; r is the remainder of the
\* digits above n
RECURSIVE DivDigits(_, _, _)
DivDigits(n, d, r) ==
  IF n = <<>> THEN [q |-> <<>>, r |-> r]
  ELSE LET cur == Trim(<<n[Len(n)]>> \o r)
           g == QuotientDigit(cur, d, 0, 14)
           rest == DivDigits(SubSeq(n, 1, Len(n) - 1), d,
                             Trim(SubDigits(cur, MulDigit(d, g, 0), 0)))
       IN [q |-> Append(rest.q, g), r |-> rest.r]

\* quotient and remainder of n by d > 0
DivMod(n, d) ==
  IF Len(d) = 1
  THEN LET s == DivDigit(n, d[1], 0) IN [q |-> Trim(s.q), r |-> FromInt(s.r)]
  ELSE LET s == DivDigits(n, d, <<>>) IN [q |-> Trim(s.q), r |-> s.r]

\* n shifted right by k bits, and whether a bit that was shifted out was set
ShiftRight(n, k) ==
  LET digits == Min(k \div 15, Len(n))
      s == DivDigit(SubSeq(n, digits + 1, Len(n)), 2^(k % 15), 0)
  IN [q |-> Trim(s.q),
      sticky |-> s.r # 0 \/ \E i \in 1..digits : n[i] # 0]

\* the double nearest to n * 2^e, ties to even
RoundToDouble(n, e) ==
  IF Bits(n) <= 53 THEN [m |-> n, e |-> e]
  ELSE LET k == Bits(n) - 53
           s == ShiftRight(n, k - 1)
           h == DivDigit(s.q, 2, 0)
           up == h.r = 1 /\ (s.sticky \/ h.q[1] % 2 = 1)
       IN [m |-> IF up THEN AddDigits(Trim(h.q), <<>>, 1) ELSE Trim(h.q), e |-> e + k]

\* the double of an integer below 2^31
Double(i) == [m |-> FromInt(i), e |-> 0]

\* x * y
DoubleMul(x, y) == RoundToDouble(Mul(x.m, y.m), x.e + y.e)

\* y without its low zero digits
RECURSIVE WithoutLowZeros(_)
WithoutLowZeros(y) ==
  IF y.m # <<>> /\ y.m[1] = 0 THEN WithoutLowZeros([m |-> Tail(y.m), e |-> y.e + 15]) ELSE y

\* x / y for y > 0: the quotient of x.m * 2^(15 * digits) by y.m has 55 bits at least,
\* and a last bit is added that is set when the division left a remainder
DoubleDiv(x, y) ==
  IF x.m = <<>> THEN x
  ELSE LET d == WithoutLowZeros(y)
           digits == Max(0, Ceil(Bits(d.m) + 55 - Bits(x.m), 15))
           s == DivMod([i \in 1..digits |-> 0] \o x.m, d.m)
       IN RoundToDouble(MulDigit(s.q, 2, IF s.r = <<>> THEN 0 ELSE 1),
                        x.e - d.e - 15 * digits - 1)

\* Math.floor(x) for 0 <= x < 2^31
DoubleFloor(x) ==
  IF x.e >= 0 THEN ToInt(x.m) * 2^x.e ELSE ToInt(ShiftRight(x.m, -x.e).q)

(***************************************************************************)
(* The round trip times and throughputs the model runs on                  *)
(***************************************************************************)
RoundTripTimes == {100}
\* 240000 bit/s saturates 2 connections at rtt 100, 1638400 bit/s 14, 100000 bit/s none
Throughputs == {240000, DEFAULT_THROUGHPUT}
StarvedThroughputs == {100000}
\* at rtt 72 a throughput of 1460000 bit/s is 9 times the throughput of one segment
\* per round trip, 8 * 1460 * (1000 / 72) bit/s
SaturatedRoundTripTimes == {72}
SaturatedThroughputs == {1460000}

TcpRoundTripTimes == {100, DEFAULT_RTT}

\* every round trip time of a connection of the model, every configured throughput
\* and its double, and the numbers of nodes a throughput is divided by
ConnectionRoundTripTimes == RoundTripTimes \cup TcpRoundTripTimes \cup SaturatedRoundTripTimes
ConfiguredThroughputs == Throughputs \cup StarvedThroughputs \cup SaturatedThroughputs
ConnectionThroughputs == ConfiguredThroughputs \cup {2 * t : t \in ConfiguredThroughputs}
Shares == 1..21

(***************************************************************************)
(* TcpConnection                                                           *)
(***************************************************************************)
Quotient(num, den) == [num |-> num, den |-> den]

TcpConnection(rtt, throughput, responseTime, ssl) ==
  [warmed |-> FALSE,
   ssl |-> ssl,
   rtt |-> rtt,
   availableThroughput |-> throughput,
   responseTime |-> responseTime,
   congestionWindow |-> INITIAL_CONGESTION_WINDOW]

\* TcpConnection.maximumSaturatedConnections for an integer throughput
saturatedConnections(rtt, availableThroughput) ==
  LET roundTripsPerSecond == DoubleDiv(Double(1000), Double(rtt))
      bytesPerRoundTrip == Double(TCP_SEGMENT_SIZE)
      bytesPerSecond == DoubleMul(roundTripsPerSecond, bytesPerRoundTrip)
      minimumThroughputRequiredPerRequest == DoubleMul(bytesPerSecond, Double(8))
  IN DoubleFloor(DoubleDiv(Double(availableThroughput), minimumThroughputRequiredPerRequest))

\* its values on the round trip times and throughputs of the model
saturatedConnectionsOfModel ==
  [rtt \in ConnectionRoundTripTimes, throughput \in ConnectionThroughputs |->
     saturatedConnections(rtt, throughput)]

maximumSaturatedConnections(rtt, availableThroughput) ==
  saturatedConnectionsOfModel[rtt, availableThroughput]

\* _computeMaximumCongestionWindowInSegments for the throughput num / den
maximumCongestionWindowInSegments(rtt, num, den) ==
  LET bytesPerSecond == DoubleDiv(DoubleDiv(Double(num), Double(den)), Double(8))
      secondsPerRoundTrip == DoubleDiv(Double(rtt), Double(1000))
      bytesPerRoundTrip == DoubleMul(bytesPerSecond, secondsPerRoundTrip)
  IN DoubleFloor(DoubleDiv(bytesPerRoundTrip, Double(TCP_SEGMENT_SIZE)))

\* its values on the round trip times and throughputs of the model
maximumCongestionWindowsOfModel ==
  [rtt \in ConnectionRoundTripTimes, num \in ConnectionThroughputs, den \in Shares |->
     maximumCongestionWindowInSegments(rtt, num, den)]

\* the maximum congestion window kept in 4 bits
computeMaximumCongestionWindowInSegmentsWrapped(c) ==
  maximumCongestionWindowsOfModel[c.rtt, c.availableThroughput.num, c.availableThroughput.den] % 16

\* floor((availableThroughput / 8) * (rtt / 1000) / TCP_SEGMENT_SIZE)
computeMaximumCongestionWindowInSegments(c) ==
  maximumCongestionWindowsOfModel[c.rtt, c.availableThroughput.num, c.availableThroughput.den]

setThroughput(c, throughput) == [c EXCEPT !.availableThroughput = throughput]
setCongestionWindow(c, congestion) == [c EXCEPT !.congestionWindow = congestion]
\* setWarmed that stores nothing
setWarmedDropped(c, value) == c

setWarmed(c, value) == [c EXCEPT !.warmed = value]

\* handshakeAndRequest without the test of the warmed flag
handshakeAndRequestIgnoringWarmed(c) ==
  LET twoWayLatency == c.rtt
      oneWayLatency == twoWayLatency \div 2
  IN oneWayLatency + oneWayLatency + oneWayLatency + (IF c.ssl THEN twoWayLatency ELSE 0)

handshakeAndRequest(c) ==
  LET twoWayLatency == c.rtt
      oneWayLatency == twoWayLatency \div 2
  IN IF ~c.warmed
     THEN oneWayLatency + oneWayLatency + oneWayLatency
            + (IF c.ssl THEN twoWayLatency ELSE 0)
     ELSE oneWayLatency

\* timeToFirstByte without the one-way latency of the response
timeToFirstByteWithoutResponseLatency(c) == handshakeAndRequest(c) + c.responseTime

timeToFirstByte(c) == handshakeAndRequest(c) + c.responseTime + (c.rtt \div 2)

\* the while loop with < for <= in the test of the deadline
RECURSIVE growthLoopStrictDeadline(_, _, _, _)
growthLoopStrictDeadline(s, twoWayLatency, maximumCongestionWindow, maximumDownloadTimeToElapse) ==
  IF s.bytesRemaining > 0 /\ s.downloadTimeElapsed < maximumDownloadTimeToElapse
  THEN LET congestionWindow ==
             Max(Min(maximumCongestionWindow, s.congestionWindow * 2), 1)
           bytesDownloadedInWindow == congestionWindow * TCP_SEGMENT_SIZE
       IN growthLoopStrictDeadline(
            [roundTrips |-> s.roundTrips + 1,
             downloadTimeElapsed |-> s.downloadTimeElapsed + twoWayLatency,
             congestionWindow |-> congestionWindow,
             bytesDownloaded |-> s.bytesDownloaded + bytesDownloadedInWindow,
             bytesRemaining |-> s.bytesRemaining - bytesDownloadedInWindow],
            twoWayLatency, maximumCongestionWindow, maximumDownloadTimeToElapse)
  ELSE s

\* the while loop without Math.max(..., 1); a window of 0 never ends the loop, which is
\* cut after 8 round trips
RECURSIVE growthLoopWithoutFloor(_, _, _, _)
growthLoopWithoutFloor(s, twoWayLatency, maximumCongestionWindow, maximumDownloadTimeToElapse) ==
  IF s.bytesRemaining > 0 /\ s.downloadTimeElapsed <= maximumDownloadTimeToElapse
     /\ s.roundTrips < 8
  THEN LET congestionWindow == Min(maximumCongestionWindow, s.congestionWindow * 2)
           bytesDownloadedInWindow == congestionWindow * TCP_SEGMENT_SIZE
       IN growthLoopWithoutFloor(
            [roundTrips |-> s.roundTrips + 1,
             downloadTimeElapsed |-> s.downloadTimeElapsed + twoWayLatency,
             congestionWindow |-> congestionWindow,
             bytesDownloaded |-> s.bytesDownloaded + bytesDownloadedInWindow,
             bytesRemaining |-> s.bytesRemaining - bytesDownloadedInWindow],
            twoWayLatency, maximumCongestionWindow, maximumDownloadTimeToElapse)
  ELSE s

\* the while loop without Math.min(maximumCongestionWindow, ...)
RECURSIVE growthLoopWithoutCap(_, _, _, _)
growthLoopWithoutCap(s, twoWayLatency, maximumCongestionWindow, maximumDownloadTimeToElapse) ==
  IF s.bytesRemaining > 0 /\ s.downloadTimeElapsed <= maximumDownloadTimeToElapse
  THEN LET congestionWindow == Max(s.congestionWindow * 2, 1)
           bytesDownloadedInWindow == congestionWindow * TCP_SEGMENT_SIZE
       IN growthLoopWithoutCap(
            [roundTrips |-> s.roundTrips + 1,
             downloadTimeElapsed |-> s.downloadTimeElapsed + twoWayLatency,
             congestionWindow |-> congestionWindow,
             bytesDownloaded |-> s.bytesDownloaded + bytesDownloadedInWindow,
             bytesRemaining |-> s.bytesRemaining - bytesDownloadedInWindow],
            twoWayLatency, maximumCongestionWindow, maximumDownloadTimeToElapse)
  ELSE s

\* the while loop ending before the round trip that would pass the deadline
RECURSIVE growthLoopStoppingBeforeDeadline(_, _, _, _)
growthLoopStoppingBeforeDeadline(s, twoWayLatency, maximumCongestionWindow, maximumDownloadTimeToElapse) ==
  IF s.bytesRemaining > 0 /\ Plus(s.downloadTimeElapsed, twoWayLatency) <= maximumDownloadTimeToElapse
  THEN LET congestionWindow ==
             Max(Min(maximumCongestionWindow, s.congestionWindow * 2), 1)
           bytesDownloadedInWindow == congestionWindow * TCP_SEGMENT_SIZE
       IN growthLoopStoppingBeforeDeadline(
            [roundTrips |-> s.roundTrips + 1,
             downloadTimeElapsed |-> s.downloadTimeElapsed + twoWayLatency,
             congestionWindow |-> congestionWindow,
             bytesDownloaded |-> s.bytesDownloaded + bytesDownloadedInWindow,
             bytesRemaining |-> s.bytesRemaining - bytesDownloadedInWindow],
            twoWayLatency, maximumCongestionWindow, maximumDownloadTimeToElapse)
  ELSE s

\* the while loop of calculateTimeToDownload
RECURSIVE growthLoop(_, _, _, _)
growthLoop(s, twoWayLatency, maximumCongestionWindow, maximumDownloadTimeToElapse) ==
  IF s.bytesRemaining > 0 /\ s.downloadTimeElapsed <= maximumDownloadTimeToElapse
  THEN LET congestionWindow ==
             Max(Min(maximumCongestionWindow, s.congestionWindow * 2), 1)
           bytesDownloadedInWindow == congestionWindow * TCP_SEGMENT_SIZE
       IN growthLoop(
            [roundTrips |-> s.roundTrips + 1,
             downloadTimeElapsed |-> s.downloadTimeElapsed + twoWayLatency,
             congestionWindow |-> congestionWindow,
             bytesDownloaded |-> s.bytesDownloaded + bytesDownloadedInWindow,
             bytesRemaining |-> s.bytesRemaining - bytesDownloadedInWindow],
            twoWayLatency, maximumCongestionWindow, maximumDownloadTimeToElapse)
  ELSE s

\* calculateTimeToDownload up to the end of its while loop: the time charged to the
\* first byte and the loop's final state
transferWindows(c, bytesToDownload, timeAlreadyElapsed, maximumTimeToElapse) ==
  LET twoWayLatency == c.rtt
      timeElapsedForTTFB == Max(timeToFirstByte(c) - timeAlreadyElapsed, 0)
      maximumDownloadTimeToElapse == Minus(maximumTimeToElapse, timeElapsedForTTFB)
      roundTrips ==
        IF timeElapsedForTTFB > 0 THEN Ceil(handshakeAndRequest(c), twoWayLatency) ELSE 0
      from(congestionWindow, maximumCongestionWindow) ==
        LET bytesDownloaded ==
              IF timeElapsedForTTFB > 0 THEN congestionWindow * TCP_SEGMENT_SIZE ELSE 0
        IN [timeElapsedForTTFB |-> timeElapsedForTTFB,
            end |-> growthLoop(
                      [roundTrips |-> roundTrips,
                       downloadTimeElapsed |-> 0,
                       congestionWindow |-> congestionWindow,
                       bytesDownloaded |-> bytesDownloaded,
                       bytesRemaining |-> bytesToDownload - bytesDownloaded],
                      twoWayLatency, maximumCongestionWindow,
                      maximumDownloadTimeToElapse)]
      capped(maximumCongestionWindow) ==
        from(Min(c.congestionWindow, maximumCongestionWindow), maximumCongestionWindow)
  IN capped(computeMaximumCongestionWindowInSegments(c))

\* calculateTimeToDownload without Math.min(bytesDownloaded, bytesToDownload)
calculateTimeToDownloadUnclamped(c, bytesToDownload, timeAlreadyElapsed, maximumTimeToElapse) ==
  LET result(t) ==
        [roundTrips |-> t.end.roundTrips,
         timeElapsed |-> t.timeElapsedForTTFB + t.end.downloadTimeElapsed,
         bytesDownloaded |-> t.end.bytesDownloaded,
         congestionWindow |-> t.end.congestionWindow]
  IN result(transferWindows(c, bytesToDownload, timeAlreadyElapsed, maximumTimeToElapse))

calculateTimeToDownload(c, bytesToDownload, timeAlreadyElapsed, maximumTimeToElapse) ==
  LET result(t) ==
        [roundTrips |-> t.end.roundTrips,
         timeElapsed |-> t.timeElapsedForTTFB + t.end.downloadTimeElapsed,
         bytesDownloaded |-> Min(t.end.bytesDownloaded, bytesToDownload),
         congestionWindow |-> t.end.congestionWindow]
  IN result(transferWindows(c, bytesToDownload, timeAlreadyElapsed, maximumTimeToElapse))

(***************************************************************************)
(* The dependency graph (../node, not part of the sources): a function     *)
(* from node ids 1..n to nodes; node 1 is the root.  Dependents are        *)
(* visited in ascending id order.                                          *)
(***************************************************************************)
NETWORK == "network"
CPU == "cpu"
NoTiming == <<>>

NetworkRecord(connectionId, transferSize, timing, scheme) ==
  [connectionId |-> connectionId,
   transferSize |-> transferSize,
   timing |-> timing,
   scheme |-> scheme]

Node(type, dependencies, record) ==
  [type |-> type, dependencies |-> dependencies, record |-> record]

getRootNode(g) == 1
getDependencies(g, node) == g[node].dependencies
getDependents(g, node) == {m \in DOMAIN g : node \in g[m].dependencies}

RECURSIVE reachable(_, _)
reachable(g, seen) ==
  LET more == seen \cup UNION {getDependents(g, m) : m \in seen}
  IN IF more = seen THEN seen ELSE reachable(g, more)

\* the nodes Node.traverse visits from the root
traverse(g) == reachable(g, {getRootNode(g)})

RECURSIVE ancestors(_, _)
ancestors(g, seen) ==
  LET more == seen \cup UNION {getDependencies(g, m) : m \in seen}
  IN IF more = seen THEN seen ELSE ancestors(g, more)

\* node is on a dependency cycle
OnCycle(g, node) == node \in ancestors(g, getDependencies(g, node))
HasCycle(g) == \E node \in DOMAIN g : OnCycle(g, node)
CycleThroughRoot(g) == OnCycle(g, getRootNode(g))

(***************************************************************************)
(* Estimator                                                               *)
(***************************************************************************)
VARIABLES
  graph,                \* this._graph
  options,              \* this._options
  maximumConcurrentRequests, \* this._maximumConcurrentRequests
  connections,          \* this._connections: connectionId -> TcpConnection
  nodeAuxiliaryData,    \* this._nodeAuxiliaryData: node -> auxiliary data
  nodesCompleted,       \* this._nodesCompleted, in insertion order
  nodesInProcess,       \* this._nodesInProcess, in insertion order
  nodesInQueue,         \* this._nodesInQueue, in insertion order
  connectionsInUse,     \* this._connectionsInUse, in insertion order
  depth,                \* estimate(): depth
  totalElapsedTime,     \* estimate(): totalElapsedTime
  minimumTime,          \* estimate(): minimumTime of the current iteration
  pc,                   \* position in estimate()
  iter,                 \* the nodes the current for-of loop has still to visit
  error,                \* the message of the Error thrown, "" when none
  bytesReturned,        \* per node, the bytesDownloaded the deadline queries returned
  run,                  \* the number of estimate() calls started
  previous,             \* what the earlier estimate() call returned
  tcp,                  \* a TcpConnection used on its own
  lastCalculation,      \* the last calculateTimeToDownload call on tcp as it now is:
                        \* <<>> or <<[arguments and result]>>
  opts,                 \* manager.opts: [port, handleSIGINT]
  isSigintBound,        \* manager.isSigintBound
  attempts,             \* manager.attempts
  instance,             \* manager.instance: 0 for undefined, else the number of the Launcher
  launchers,            \* the number of Launchers created
  requestedPort,        \* per Launcher: this.requestedPort
  chrome,               \* per Launcher: whether this.chrome is set
  retries,              \* per Launcher: retries of its waitUntilReady
  waited,               \* per Launcher: the milliseconds its waitUntilReady spent in
                        \* delay(pollInterval)
  calls,                \* the number of launch() calls made
  launchPc,             \* per launch() call, where it is: launch, poll, connect, delay,
                        \* retry, kill, resolved, rejected
  launcherOf,           \* per launch() call: the Launcher whose launch() it awaits
  launchError,          \* per launch() call: the code of the err its retry(err) handles
                        \* or it was rejected with
  launches              \* per launch() call: the number of Launcher.launch() calls made

vars == <<graph, options, maximumConcurrentRequests, connections, nodeAuxiliaryData,
          nodesCompleted, nodesInProcess, nodesInQueue, connectionsInUse, depth,
          totalElapsedTime, minimumTime, pc, iter, error, bytesReturned, run, previous,
          tcp, lastCalculation, opts, isSigintBound, attempts, instance, launchers,
          requestedPort, chrome, retries, waited, calls, launchPc, launcherOf,
          launchError, launches>>

Options(rtt, throughput, defaultResponseTime, maximumConcurrent) ==
  [rtt |-> rtt,
   throughput |-> throughput,
   defaultResponseTime |-> defaultResponseTime,
   maximumConcurrentRequests |-> maximumConcurrent]

\* Estimator constructor: this._maximumConcurrentRequests
clampMaximumConcurrentRequests(o) ==
  Min(maximumSaturatedConnections(o.rtt, o.throughput), o.maximumConcurrentRequests)

\* Estimator.getResponseTime: (timing && receiveHeadersEnd - sendEnd) || Infinity
getResponseTime(record) ==
  IF record.timing = NoTiming THEN Infinity
  ELSE LET responseTime == record.timing[2] - record.timing[1]
       IN IF responseTime = 0 THEN Infinity ELSE responseTime

\* _initializeNetworkRecords: the NETWORK nodes reachable from the root
initializeNetworkRecords(g) ==
  Ascending({node \in traverse(g) : g[node].type = NETWORK})

RECURSIVE minimumResponseTime(_, _)
minimumResponseTime(g, records) ==
  IF records = <<>> THEN Infinity
  ELSE Min(minimumResponseTime(g, Tail(records)), getResponseTime(g[Head(records)].record))

\* the records of _initializeNetworkRecords with this connectionId, in order
recordsByConnection(g, id) ==
  SelectSeq(initializeNetworkRecords(g), LAMBDA node : g[node].record.connectionId = id)

connectionIds(g) ==
  {g[node].record.connectionId : node \in Range(initializeNetworkRecords(g))}

\* the body of the loop of _initializeNetworkConnections: the connection of one group
newConnection(g, o, id) ==
  LET records == recordsByConnection(g, id)
      isSsl == g[records[1]].record.scheme = "https"
      minimum == minimumResponseTime(g, records)
      responseTime == IF ~IsFinite(minimum) THEN o.defaultResponseTime ELSE minimum
  IN TcpConnection(o.rtt, Quotient(o.throughput, 1), responseTime, isSsl)

\* _initializeNetworkConnections keeping the connections an earlier estimate() made
initializeNetworkConnectionsOnce(g, o) ==
  [id \in connectionIds(g) |->
     IF id \in DOMAIN connections THEN connections[id] ELSE newConnection(g, o, id)]

\* _initializeNetworkConnections: one new TcpConnection per connectionId
initializeNetworkConnections(g, o) ==
  [id \in connectionIds(g) |-> newConnection(g, o, id)]

\* _enqueueNodeIfPossible without the test that the node has not completed
enqueueNodeIfPossibleNoCompletedTest(queue, completed, node) ==
  IF \A dependency \in getDependencies(graph, node) : dependency \in Range(completed)
  THEN SetAdd(queue, node)
  ELSE queue

\* _enqueueNodeIfPossible: the queue after the call
enqueueNodeIfPossible(queue, completed, node) ==
  IF /\ node \notin Range(completed)
     /\ \A dependency \in getDependencies(graph, node) : dependency \in Range(completed)
  THEN SetAdd(queue, node)
  ELSE queue

\* for (const dependent of node.getDependents()) this._enqueueNodeIfPossible(dependent)
RECURSIVE enqueueDependents(_, _, _)
enqueueDependents(queue, completed, dependents) ==
  IF dependents = <<>> THEN queue
  ELSE enqueueDependents(enqueueNodeIfPossible(queue, completed, Head(dependents)),
                         completed, Tail(dependents))

\* the refusal test with > for >=: one node too many is admitted
cannotStartOffByOne(node) ==
  \/ Len(nodesInProcess) > maximumConcurrentRequests
  \/ graph[node].record.connectionId \in Range(connectionsInUse)

\* the refusal test without the test of connectionsInUse
cannotStartIgnoringConnection(node) ==
  Len(nodesInProcess) >= maximumConcurrentRequests

\* the refusal test of _startNodeIfPossible
cannotStart(node) ==
  \/ Len(nodesInProcess) >= maximumConcurrentRequests
  \/ graph[node].record.connectionId \in Range(connectionsInUse)

\* the query of _estimateTimeRemaining
estimateCalculation(node) ==
  calculateTimeToDownload(
    connections[graph[node].record.connectionId],
    graph[node].record.transferSize - nodeAuxiliaryData[node].bytesDownloaded,
    nodeAuxiliaryData[node].timeElapsed,
    Infinity)

\* _estimateTimeRemaining: the estimate it stores and returns
estimateTimeRemaining(node) ==
  estimateCalculation(node).timeElapsed + nodeAuxiliaryData[node].timeElapsedOvershoot

\* the query of _updateProgressMadeInTimePeriod
progressCalculation(node, timePeriodLength) ==
  calculateTimeToDownload(
    connections[graph[node].record.connectionId],
    graph[node].record.transferSize - nodeAuxiliaryData[node].bytesDownloaded,
    nodeAuxiliaryData[node].timeElapsed,
    Minus(timePeriodLength, nodeAuxiliaryData[node].timeElapsedOvershoot))

\* the partial progress with the overshoot measured against the shortened deadline
\* timePeriodLength - timeElapsedOvershoot
partialProgressAgainstDeadline(auxiliaryData, calculation, timePeriodLength) ==
  [auxiliaryData EXCEPT
     !.timeElapsed = @ + calculation.timeElapsed,
     !.timeElapsedOvershoot =
       @ + (calculation.timeElapsed
              - (timePeriodLength - auxiliaryData.timeElapsedOvershoot)),
     !.bytesDownloaded = @ + calculation.bytesDownloaded]

\* _updateProgressMadeInTimePeriod, node not finished: timeElapsed, timeElapsedOvershoot
\* and bytesDownloaded of the node grow by what the calculation reports
partialProgress(auxiliaryData, calculation, timePeriodLength) ==
  [auxiliaryData EXCEPT
     !.timeElapsed = @ + calculation.timeElapsed,
     !.timeElapsedOvershoot = @ + (calculation.timeElapsed - timePeriodLength),
     !.bytesDownloaded = @ + calculation.bytesDownloaded]

\* the completion test with < for ===: the node whose estimate is the time period
\* is not finished
isFinishedBeforeTimePeriod(node, timePeriodLength) ==
  nodeAuxiliaryData[node].estimatedTimeElapsed < timePeriodLength

\* _updateProgressMadeInTimePeriod: auxiliaryData.estimatedTimeElapsed === timePeriodLength
isFinished(node, timePeriodLength) ==
  nodeAuxiliaryData[node].estimatedTimeElapsed = timePeriodLength

\* _findNextNodeCompletionTime keeping the estimate of the last node, not the minimum
findNextNodeCompletionTimeOfLastNode(nodes) ==
  IF nodes = <<>> THEN Infinity ELSE estimateTimeRemaining(nodes[Len(nodes)])

\* _findNextNodeCompletionTime: the minimum of the estimates of the nodes in process
RECURSIVE findNextNodeCompletionTime(_)
findNextNodeCompletionTime(nodes) ==
  IF nodes = <<>> THEN Infinity
  ELSE Min(estimateTimeRemaining(Head(nodes)), findNextNodeCompletionTime(Tail(nodes)))

inputs == <<graph, options, maximumConcurrentRequests>>
sets == <<nodesCompleted, nodesInProcess, nodesInQueue, connectionsInUse>>
runs == <<run, previous>>
chromeLauncher == <<opts, isSigintBound, attempts, instance, launchers, requestedPort,
                    chrome, retries, waited, calls, launchPc, launcherOf, launchError,
                    launches>>
alone == <<tcp, lastCalculation, chromeLauncher>>

\* LaunchManager.maxLaunchAttempts
maxLaunchAttempts == 3

\* Launcher.pollInterval
pollInterval == 500

\* waitUntilReady: maxPortCheckRetries
maxPortCheckRetries == 10

\* no retry(err) of the call is under way
NoError == "none"

\* const manager = new LaunchManager(), before launch() is called
NewLaunchManager ==
  /\ opts = [port |-> 0, handleSIGINT |-> TRUE]
  /\ isSigintBound = FALSE
  /\ attempts = 1
  /\ instance = 0
  /\ launchers = 0
  /\ requestedPort = <<>>
  /\ chrome = <<>>
  /\ retries = <<>>
  /\ waited = <<>>
  /\ calls = 0
  /\ launchPc = <<>>
  /\ launcherOf = <<>>
  /\ launchError = <<>>
  /\ launches = <<>>

\* estimate(): the initialisation before the loop, for an estimator with options o
initialise(o) ==
  /\ connections' = initializeNetworkConnections(graph, o)
  /\ nodeAuxiliaryData' = EmptyMap
  /\ nodesCompleted' = <<>>
  /\ nodesInProcess' = <<>>
  /\ connectionsInUse' = <<>>
  /\ nodesInQueue' = <<getRootNode(graph)>>
  /\ depth' = 0
  /\ totalElapsedTime' = 0
  /\ bytesReturned' = [node \in DOMAIN graph |-> 0]
  /\ pc' = "while"

\* estimate() is called on the new estimator
Estimate ==
  /\ pc = "new"
  /\ initialise(options)
  /\ UNCHANGED <<inputs, minimumTime, iter, error, runs, alone>>

\* what a call of estimate() returned: the total and the nodes' start and end times
outcome ==
  [totalElapsedTime |-> totalElapsedTime,
   times |-> [node \in DOMAIN nodeAuxiliaryData |->
                <<nodeAuxiliaryData[node].startTime, nodeAuxiliaryData[node].endTime>>]]

\* estimate() has returned and is called again on the same estimator
EstimateAgain ==
  /\ pc = "returned"
  /\ run = 1
  /\ initialise(options)
  /\ run' = run + 1
  /\ previous' = Append(previous, outcome)
  /\ UNCHANGED <<inputs, minimumTime, iter, error, alone>>

\* estimate() has returned; a new Estimator(graph, options) with twice the throughput
\* is constructed and its estimate() is called
EstimateDoubled ==
  /\ pc = "returned"
  /\ run = 1
  /\ options' = [options EXCEPT !.throughput = 2 * @]
  /\ maximumConcurrentRequests' = clampMaximumConcurrentRequests(options')
  /\ initialise(options')
  /\ run' = run + 1
  /\ previous' = Append(previous, outcome)
  /\ UNCHANGED <<graph, minimumTime, iter, error, alone>>

\* while (nodesInQueue.size || nodesInProcess.size) { depth++; for (node of nodesInQueue)
EnterLoop ==
  /\ pc = "while"
  /\ nodesInQueue # <<>> \/ nodesInProcess # <<>>
  /\ depth' = depth + 1
  /\ iter' = nodesInQueue
  /\ pc' = "start"
  /\ UNCHANGED <<inputs, connections, nodeAuxiliaryData, sets, totalElapsedTime,
                 minimumTime, error, bytesReturned, runs, alone>>

\* the loop condition fails: return totalElapsedTime
Return ==
  /\ pc = "while"
  /\ nodesInQueue = <<>> /\ nodesInProcess = <<>>
  /\ pc' = "returned"
  /\ UNCHANGED <<inputs, connections, nodeAuxiliaryData, sets, depth, totalElapsedTime,
                 minimumTime, iter, error, bytesReturned, runs, alone>>

\* _startNodeIfPossible without the test of the node's type
StartNodeIfPossibleOfAnyType ==
  /\ pc = "start"
  /\ iter # <<>>
  /\ LET node == Head(iter)
     IN IF cannotStart(node)
        THEN UNCHANGED <<nodesInQueue, nodesInProcess, nodeAuxiliaryData, connectionsInUse>>
        ELSE /\ nodesInQueue' = SetDelete(nodesInQueue, node)
             /\ nodesInProcess' = SetAdd(nodesInProcess, node)
             /\ nodeAuxiliaryData' =
                  (node :> [startTime |-> totalElapsedTime,
                            timeElapsed |-> 0,
                            timeElapsedOvershoot |-> 0,
                            bytesDownloaded |-> 0]) @@ nodeAuxiliaryData
             /\ connectionsInUse' =
                  SetAdd(connectionsInUse, graph[node].record.connectionId)
  /\ iter' = Tail(iter)
  /\ UNCHANGED <<inputs, connections, nodesCompleted, depth, totalElapsedTime,
                 minimumTime, pc, error, bytesReturned, runs, alone>>

\* _startNodeIfPossible(node, totalElapsedTime) for the next queued node
StartNodeIfPossible ==
  /\ pc = "start"
  /\ iter # <<>>
  /\ LET node == Head(iter)
     IN IF graph[node].type # NETWORK \/ cannotStart(node)
        THEN UNCHANGED <<nodesInQueue, nodesInProcess, nodeAuxiliaryData, connectionsInUse>>
        ELSE /\ nodesInQueue' = SetDelete(nodesInQueue, node)
             /\ nodesInProcess' = SetAdd(nodesInProcess, node)
             /\ nodeAuxiliaryData' =
                  (node :> [startTime |-> totalElapsedTime,
                            timeElapsed |-> 0,
                            timeElapsedOvershoot |-> 0,
                            bytesDownloaded |-> 0]) @@ nodeAuxiliaryData
             /\ connectionsInUse' =
                  SetAdd(connectionsInUse, graph[node].record.connectionId)
  /\ iter' = Tail(iter)
  /\ UNCHANGED <<inputs, connections, nodesCompleted, depth, totalElapsedTime,
                 minimumTime, pc, error, bytesReturned, runs, alone>>

\* _updateNetworkCapacity setting the throughput of every connection
UpdateNetworkCapacityOfAllConnections ==
  /\ pc = "start"
  /\ iter = <<>>
  /\ connections' =
       [id \in DOMAIN connections |->
          IF nodesInProcess # <<>>
          THEN setThroughput(connections[id],
                             Quotient(options.throughput, Len(nodesInProcess)))
          ELSE connections[id]]
  /\ pc' = "find"
  /\ UNCHANGED <<inputs, nodeAuxiliaryData, sets, depth, totalElapsedTime, minimumTime,
                 iter, error, bytesReturned, runs, alone>>

\* _updateNetworkCapacity
UpdateNetworkCapacity ==
  /\ pc = "start"
  /\ iter = <<>>
  /\ connections' =
       [id \in DOMAIN connections |->
          IF id \in Range(connectionsInUse)
          THEN setThroughput(connections[id],
                             Quotient(options.throughput, Len(nodesInProcess)))
          ELSE connections[id]]
  /\ pc' = "find"
  /\ UNCHANGED <<inputs, nodeAuxiliaryData, sets, depth, totalElapsedTime, minimumTime,
                 iter, error, bytesReturned, runs, alone>>

\* _findNextNodeCompletionTime and totalElapsedTime += minimumTime
FindNextNodeCompletionTime ==
  /\ pc = "find"
  /\ IF \E node \in Range(nodesInProcess) : graph[node].type # NETWORK
     THEN /\ pc' = "thrown"
          /\ error' = "Unsupported"
          /\ UNCHANGED <<nodeAuxiliaryData, minimumTime, totalElapsedTime, iter>>
     ELSE /\ nodeAuxiliaryData' =
               [node \in DOMAIN nodeAuxiliaryData |->
                  IF node \in Range(nodesInProcess)
                  THEN [estimatedTimeElapsed |-> estimateTimeRemaining(node)]
                         @@ nodeAuxiliaryData[node]
                  ELSE nodeAuxiliaryData[node]]
          /\ minimumTime' = findNextNodeCompletionTime(nodesInProcess)
          /\ totalElapsedTime' =
               Plus(totalElapsedTime, findNextNodeCompletionTime(nodesInProcess))
          /\ iter' = nodesInProcess
          /\ pc' = "progress"
          /\ UNCHANGED error
  /\ UNCHANGED <<inputs, connections, sets, depth, bytesReturned, runs, alone>>

\* _updateProgressMadeInTimePeriod(node, minimumTime, totalElapsedTime) for the next
\* node in process
UpdateProgressMadeInTimePeriod ==
  /\ pc = "progress"
  /\ iter # <<>>
  /\ LET node == Head(iter)
         id == graph[node].record.connectionId
         auxiliaryData == nodeAuxiliaryData[node]
         calculation == progressCalculation(node, minimumTime)
         connection == setCongestionWindow(connections[id], calculation.congestionWindow)
     IN IF graph[node].type # NETWORK
        THEN /\ pc' = "thrown"
             /\ error' = "Unsupported"
             /\ UNCHANGED <<connections, nodeAuxiliaryData, sets, bytesReturned, iter>>
        ELSE /\ bytesReturned' =
                  [bytesReturned EXCEPT ![node] = @ + calculation.bytesDownloaded]
             /\ iter' = Tail(iter)
             /\ UNCHANGED <<pc, error>>
             /\ IF isFinished(node, minimumTime)
                THEN /\ nodeAuxiliaryData' =
                          [nodeAuxiliaryData EXCEPT
                             ![node] = [endTime |-> totalElapsedTime] @@ auxiliaryData]
                     /\ connections' =
                          [connections EXCEPT ![id] = setWarmed(connection, TRUE)]
                     /\ connectionsInUse' = SetDelete(connectionsInUse, id)
                     /\ nodesCompleted' = SetAdd(nodesCompleted, node)
                     /\ nodesInProcess' = SetDelete(nodesInProcess, node)
                     /\ nodesInQueue' =
                          enqueueDependents(nodesInQueue, SetAdd(nodesCompleted, node),
                                            Ascending(getDependents(graph, node)))
                ELSE /\ nodeAuxiliaryData' =
                          [nodeAuxiliaryData EXCEPT
                             ![node] = partialProgress(auxiliaryData, calculation,
                                                       minimumTime)]
                     /\ connections' = [connections EXCEPT ![id] = connection]
                     /\ UNCHANGED sets
  /\ UNCHANGED <<inputs, depth, totalElapsedTime, minimumTime, runs, alone>>

\* the end of an iteration in which nodes were in process: depth <= 10000, loop again
NextIteration ==
  /\ pc = "progress"
  /\ iter = <<>>
  /\ depth <= MaximumDepth
  /\ IsFinite(minimumTime)
  /\ pc' = "while"
  /\ UNCHANGED <<inputs, connections, nodeAuxiliaryData, sets, depth, totalElapsedTime,
                 minimumTime, iter, error, bytesReturned, runs, alone>>

\* the end of an iteration in which no node was in process (minimumTime is Infinity):
\* the queue is not empty and nothing in it could start, so every further iteration
\* starts from the same sets and connections and changes only depth, up to 10001
IdleIterations ==
  /\ pc = "progress"
  /\ iter = <<>>
  /\ depth <= MaximumDepth
  /\ ~IsFinite(minimumTime)
  /\ depth' = MaximumDepth + 1
  /\ UNCHANGED <<inputs, connections, nodeAuxiliaryData, sets, totalElapsedTime,
                 minimumTime, pc, iter, error, bytesReturned, runs, alone>>

\* if (depth > 10000) throw new Error('Maximum depth exceeded: estimate')
DepthExceeded ==
  /\ pc = "progress"
  /\ iter = <<>>
  /\ depth > MaximumDepth
  /\ pc' = "thrown"
  /\ error' = "Maximum depth exceeded: estimate"
  /\ UNCHANGED <<inputs, connections, nodeAuxiliaryData, sets, depth, totalElapsedTime,
                 minimumTime, iter, bytesReturned, runs, alone>>

(***************************************************************************)
(* The graphs and options the estimator is run on                          *)
(***************************************************************************)
\* the largest number of nodes of a generated graph
MaxNodes == 3

TransferSizes == {30000, 100000}
ConfiguredConcurrentRequests == {1, DEFAULT_MAXIMUM_CONCURRENT_REQUESTS}

\* acyclic dependencies: every node but the root depends on earlier nodes
DagDependencies(n) ==
  {d \in [1..n -> SUBSET (1..n)] :
     /\ d[1] = {}
     /\ \A i \in 2..n : d[i] # {} /\ d[i] \subseteq 1..(i - 1)}

\* node i uses connection ((i - 1) mod k) + 1: one shared connection (k = 1)
\* up to one connection per node (k = n)
ConnectionAssignments(n) == {[i \in 1..n |-> ((i - 1) % k) + 1] : k \in 1..n}

NetworkGraph(d, connectionId, transferSize) ==
  [i \in DOMAIN d |->
     Node(NETWORK, d[i], NetworkRecord(connectionId[i], transferSize[i], NoTiming, "https"))]

OptionChoices ==
  {Options(rtt, throughput, DEFAULT_RESPONSE_TIME, maximumConcurrent) :
     rtt \in RoundTripTimes, throughput \in Throughputs,
     maximumConcurrent \in ConfiguredConcurrentRequests}

DefaultOptions ==
  Options(100, DEFAULT_THROUGHPUT, DEFAULT_RESPONSE_TIME,
          DEFAULT_MAXIMUM_CONCURRENT_REQUESTS)

Input(g, o) == [graph |-> g, options |-> o]

\* a new Estimator(graph, options), before estimate() is called
Constructed(input) ==
  /\ graph = input.graph
  /\ options = input.options
  /\ maximumConcurrentRequests = clampMaximumConcurrentRequests(input.options)
  /\ connections = EmptyMap
  /\ nodeAuxiliaryData = EmptyMap
  /\ nodesCompleted = <<>>
  /\ nodesInProcess = <<>>
  /\ nodesInQueue = <<>>
  /\ connectionsInUse = <<>>
  /\ depth = 0
  /\ totalElapsedTime = 0
  /\ minimumTime = 0
  /\ pc = "new"
  /\ iter = <<>>
  /\ error = ""
  /\ bytesReturned = [node \in DOMAIN input.graph |-> 0]
  /\ run = 1
  /\ previous = <<>>
  /\ tcp = TcpConnection(DEFAULT_RTT, Quotient(DEFAULT_THROUGHPUT, 1), 0, TRUE)
  /\ lastCalculation = <<>>
  /\ NewLaunchManager

\* acyclic graphs of NETWORK nodes
InitDag ==
  \E n \in 1..MaxNodes :
    \E d \in DagDependencies(n), c \in ConnectionAssignments(n),
       s \in [1..n -> TransferSizes], o \in OptionChoices :
      Constructed(Input(NetworkGraph(d, c, s), o))

\* acyclic graphs of NETWORK nodes in which node p transfers no bytes
InitEmptyTransfer ==
  \E n \in 1..MaxNodes :
    \E d \in DagDependencies(n), p \in 1..n, k \in {1, n} :
      Constructed(Input(NetworkGraph(d, [i \in 1..n |-> ((i - 1) % k) + 1],
                                     [i \in 1..n |-> IF i = p THEN 0 ELSE 30000]),
                        DefaultOptions))

\* graphs of NETWORK nodes with a back edge: node k depends on the last node as well
InitBackEdge ==
  \E n \in 1..MaxNodes :
    \E d \in DagDependencies(n), k \in 1..n, c \in ConnectionAssignments(n),
       m \in ConfiguredConcurrentRequests :
      Constructed(Input(NetworkGraph([d EXCEPT ![k] = @ \cup {n}], c,
                                     [i \in 1..n |-> 30000]),
                        [DefaultOptions EXCEPT !.maximumConcurrentRequests = m]))

\* acyclic graphs in which node p is a CPU node
InitCpu ==
  \E n \in 1..MaxNodes :
    \E d \in DagDependencies(n), p \in 1..n :
      Constructed(Input([NetworkGraph(d, [i \in 1..n |-> i], [i \in 1..n |-> 30000])
                           EXCEPT ![p].type = CPU],
                        DefaultOptions))

\* a throughput too low to saturate one connection
InitStarved ==
  \E n \in 1..MaxNodes :
    \E d \in DagDependencies(n), throughput \in StarvedThroughputs :
      Constructed(Input(NetworkGraph(d, [i \in 1..n |-> i], [i \in 1..n |-> 30000]),
                        [DefaultOptions EXCEPT !.throughput = throughput]))

\* the options an Estimator has when none are given
ProgramDefaults ==
  Options(DEFAULT_RTT, DEFAULT_THROUGHPUT, DEFAULT_RESPONSE_TIME,
          DEFAULT_MAXIMUM_CONCURRENT_REQUESTS)

\* a root with n dependent NETWORK nodes, every node on its own connection; the
\* dependents transfer 30000 and 100000 bytes in turn
FanOutGraph(n) ==
  NetworkGraph([i \in 1..(n + 1) |-> IF i = 1 THEN {} ELSE {1}],
               [i \in 1..(n + 1) |-> i],
               [i \in 1..(n + 1) |-> IF i % 2 = 1 THEN 30000 ELSE 100000])

\* 21 connections saturate at the defaults, 2 at rtt 100 and 240000 bit/s, 9 at rtt 72
\* and 1460000 bit/s
FanOutOptions ==
  {ProgramDefaults, Options(100, 240000, DEFAULT_RESPONSE_TIME, 10)}
    \cup {Options(rtt, throughput, DEFAULT_RESPONSE_TIME, 10) :
            rtt \in SaturatedRoundTripTimes, throughput \in SaturatedThroughputs}

\* a fan-out of 20 siblings
InitFanOut == \E o \in FanOutOptions : Constructed(Input(FanOutGraph(20), o))

\* <<sendEnd, receiveHeadersEnd>> of a record's _timing; NoTiming when it has none
Timings == {NoTiming, <<10, 10>>, <<10, 30>>, <<5, 50>>}

\* graphs of 1 to 3 NETWORK nodes whose records have timings: node 1 the root, the
\* others its dependents, on one connection or on two
InitTimed ==
  \E n \in 1..3 :
    \E t \in [1..n -> Timings], k \in 1..2 :
      Constructed(
        Input([i \in 1..n |->
                 Node(NETWORK, IF i = 1 THEN {} ELSE {1},
                      NetworkRecord(((i - 1) % k) + 1, 30000, t[i], "https"))],
              DefaultOptions))

Init ==
  \/ InitDag
  \/ InitEmptyTransfer
  \/ InitBackEdge
  \/ InitCpu
  \/ InitStarved
  \/ InitFanOut
  \/ InitTimed

Next ==
  \/ Estimate
  \/ EnterLoop
  \/ StartNodeIfPossible
  \/ UpdateNetworkCapacity
  \/ FindNextNodeCompletionTime
  \/ UpdateProgressMadeInTimePeriod
  \/ NextIteration
  \/ IdleIterations
  \/ DepthExceeded
  \/ Return

Spec == Init /\ [][Next]_vars

\* estimate() twice on the same estimator
NextAgain == Next \/ EstimateAgain
SpecAgain == Init /\ [][NextAgain]_vars

\* a root that fans out to two branches whose leaves share a connection
\*   1 <- 2 <- 4,  1 <- 3 <- 5;  nodes 1 and 2 on one connection, nodes 4 and 5 on another
TwoBranchGraph ==
  LET d == <<{}, {1}, {1}, {2}, {3}>>
      connectionId == <<1, 1, 2, 3, 3>>
      transferSize == <<0, 50000, 0, 20000, 30000>>
  IN NetworkGraph(d, connectionId, transferSize)

InitTwoBranch == Constructed(Input(TwoBranchGraph, DefaultOptions))

\* estimate() at the configured throughput, then at twice that throughput
InitDoubled == InitDag \/ InitEmptyTransfer \/ InitTwoBranch \/ InitStarved
NextDoubled == Next \/ EstimateDoubled
SpecDoubled == InitDoubled /\ [][NextDoubled]_vars

\* acyclic graphs of NETWORK nodes of 30000 bytes, on one connection or each on its own
InitPlainDag ==
  \E n \in 1..MaxNodes :
    \E d \in DagDependencies(n), k \in {1, n} :
      Constructed(Input(NetworkGraph(d, [i \in 1..n |-> ((i - 1) % k) + 1],
                                     [i \in 1..n |-> 30000]),
                        DefaultOptions))

\* estimate() run to its end on the graphs with a CPU node and on the acyclic graphs of
\* NETWORK nodes: the code is sequential, so a step that can be taken is taken
InitFair == InitCpu \/ InitPlainDag
SpecFair == InitFair /\ [][Next]_vars /\ WF_vars(Next)

(***************************************************************************)
(* A TcpConnection on its own: constructed, then queried and set            *)
(***************************************************************************)
\* 100000 bit/s: the bandwidth-delay product at rtt 100 is less than a segment
TcpThroughputs == StarvedThroughputs \cup Throughputs
TcpResponseTimes == {0, DEFAULT_RESPONSE_TIME}
TcpCongestionWindows == {1, 4, INITIAL_CONGESTION_WINDOW, 14}
TcpBytesToDownload == {0, 1460, 14600, 30000, 100000}
TcpTimesAlreadyElapsed == {0, 100, 300, 700}
TcpMaximumTimesToElapse == {0, 100, 250, 450, Infinity}

\* everything but tcp and lastCalculation
estimator == <<inputs, connections, nodeAuxiliaryData, sets, depth, totalElapsedTime,
               minimumTime, pc, iter, error, bytesReturned, runs, chromeLauncher>>

\* new TcpConnection(rtt, throughput, responseTime, ssl)
InitTcp ==
  /\ \E rtt \in TcpRoundTripTimes, throughput \in TcpThroughputs,
        responseTime \in TcpResponseTimes, ssl \in BOOLEAN :
       tcp = TcpConnection(rtt, Quotient(throughput, 1), responseTime, ssl)
  /\ lastCalculation = <<>>
  /\ graph = NetworkGraph(<<{}>>, <<1>>, <<0>>)
  /\ options = DefaultOptions
  /\ maximumConcurrentRequests = clampMaximumConcurrentRequests(DefaultOptions)
  /\ connections = EmptyMap
  /\ nodeAuxiliaryData = EmptyMap
  /\ nodesCompleted = <<>>
  /\ nodesInProcess = <<>>
  /\ nodesInQueue = <<>>
  /\ connectionsInUse = <<>>
  /\ depth = 0
  /\ totalElapsedTime = 0
  /\ minimumTime = 0
  /\ pc = "new"
  /\ iter = <<>>
  /\ error = ""
  /\ bytesReturned = <<0>>
  /\ run = 1
  /\ previous = <<>>
  /\ NewLaunchManager

\* calculateTimeToDownload storing the congestion window it returns
CalculateTimeToDownloadStoringWindow ==
  /\ \E bytesToDownload \in TcpBytesToDownload,
        timeAlreadyElapsed \in TcpTimesAlreadyElapsed,
        maximumTimeToElapse \in TcpMaximumTimesToElapse :
       LET result == calculateTimeToDownload(tcp, bytesToDownload, timeAlreadyElapsed,
                                             maximumTimeToElapse)
       IN /\ lastCalculation' =
               <<[bytesToDownload |-> bytesToDownload,
                  timeAlreadyElapsed |-> timeAlreadyElapsed,
                  maximumTimeToElapse |-> maximumTimeToElapse,
                  result |-> result]>>
          /\ tcp' = setCongestionWindow(tcp, result.congestionWindow)
  /\ UNCHANGED estimator

\* tcp.calculateTimeToDownload(bytesToDownload, timeAlreadyElapsed, maximumTimeToElapse)
CalculateTimeToDownload ==
  /\ \E bytesToDownload \in TcpBytesToDownload,
        timeAlreadyElapsed \in TcpTimesAlreadyElapsed,
        maximumTimeToElapse \in TcpMaximumTimesToElapse :
       lastCalculation' =
         <<[bytesToDownload |-> bytesToDownload,
            timeAlreadyElapsed |-> timeAlreadyElapsed,
            maximumTimeToElapse |-> maximumTimeToElapse,
            result |-> calculateTimeToDownload(tcp, bytesToDownload, timeAlreadyElapsed,
                                               maximumTimeToElapse)]>>
  /\ UNCHANGED <<tcp, estimator>>

\* tcp.setThroughput(throughput)
SetThroughput ==
  /\ \E throughput \in TcpThroughputs :
       tcp' = setThroughput(tcp, Quotient(throughput, 1))
  /\ lastCalculation' = <<>>
  /\ UNCHANGED estimator

\* tcp.setCongestionWindow(congestion)
SetCongestionWindow ==
  /\ \E congestion \in TcpCongestionWindows : tcp' = setCongestionWindow(tcp, congestion)
  /\ lastCalculation' = <<>>
  /\ UNCHANGED estimator

\* tcp.setWarmed(value)
SetWarmed ==
  /\ \E value \in BOOLEAN : tcp' = setWarmed(tcp, value)
  /\ lastCalculation' = <<>>
  /\ UNCHANGED estimator

NextTcp == CalculateTimeToDownload \/ SetThroughput \/ SetCongestionWindow \/ SetWarmed
SpecTcp == InitTcp /\ [][NextTcp]_vars

(***************************************************************************)
(* The Chrome launcher: LaunchManager and Launcher                         *)
(***************************************************************************)
\* the largest number of launch() calls made on the manager
MaxLaunchCalls == 2

\* opts.port: 0 lets the launcher pick a port
Ports == {0, 9222}

\* the options of launch(), handleSIGINT after defaults(opts.handleSIGINT, true)
LaunchOptions == [port : Ports, handleSIGINT : BOOLEAN]

\* err.code of what prepare() and the chrome finder throw: an Error without a code, or
\* the code of a file system error
PrepareErrorCodes == {"undefined", "EACCES"}

\* err.code of the error event of net.createConnection
ConnectionErrorCodes == {"ECONNREFUSED", "ETIMEDOUT"}

\* everything but the launcher
pageLoad == <<inputs, connections, nodeAuxiliaryData, sets, depth, totalElapsedTime,
              minimumTime, pc, iter, error, bytesReturned, runs, tcp, lastCalculation>>

\* retry: this.attempts <= this.maxLaunchAttempts admitting one attempt more
relaunchesPastLimit(n) == n <= maxLaunchAttempts + 1

\* retry: this.attempts <= this.maxLaunchAttempts
relaunches(n) == n <= maxLaunchAttempts

\* what the manager and the Launchers keep
manager == <<opts, isSigintBound, attempts, instance>>
launcherFields == <<launchers, requestedPort, chrome, retries, waited>>

\* launchInstance up to the call of this.instance.launch(): the rejection made when
\* this.instance is set is not returned and changes nothing; a new Launcher, made with
\* the options the manager has now, becomes this.instance, and handleSigint binds the
\* handler once if opts.handleSIGINT
launchInstance ==
  /\ instance' = launchers + 1
  /\ launchers' = launchers + 1
  /\ requestedPort' = Append(requestedPort, opts'.port)
  /\ chrome' = Append(chrome, FALSE)
  /\ retries' = Append(retries, 0)
  /\ waited' = Append(waited, 0)
  /\ isSigintBound' = (isSigintBound \/ opts'.handleSIGINT)

\* launch(o): manager.setOptions(o); return manager.launchInstance(). It may be called
\* while earlier calls are still under way
Launch ==
  /\ calls < MaxLaunchCalls
  /\ \E o \in LaunchOptions : opts' = o
  /\ calls' = calls + 1
  /\ launchPc' = Append(launchPc, "launch")
  /\ launcherOf' = Append(launcherOf, launchers + 1)
  /\ launchError' = Append(launchError, NoError)
  /\ launches' = Append(launches, 1)
  /\ launchInstance
  /\ UNCHANGED <<attempts, pageLoad>>

\* Launcher.launch() up to waitUntilReady: with a requested port a Chrome that already
\* listens is used; else prepare() or the chrome finder throws, or Chrome is spawned
LauncherLaunch ==
  \E call \in DOMAIN launchPc :
    /\ launchPc[call] = "launch"
    /\ \/ /\ requestedPort[launcherOf[call]] # 0
          /\ launchPc' = [launchPc EXCEPT ![call] = "resolved"]
          /\ UNCHANGED <<chrome, retries, waited, launchError>>
       \/ /\ \E code \in PrepareErrorCodes :
               launchError' = [launchError EXCEPT ![call] = code]
          /\ launchPc' = [launchPc EXCEPT ![call] = "retry"]
          /\ UNCHANGED <<chrome, retries, waited>>
       \/ /\ chrome' = [chrome EXCEPT ![launcherOf[call]] = TRUE]
          /\ retries' = [retries EXCEPT ![launcherOf[call]] = 0]
          /\ waited' = [waited EXCEPT ![launcherOf[call]] = 0]
          /\ launchPc' = [launchPc EXCEPT ![call] = "poll"]
          /\ UNCHANGED launchError
    /\ UNCHANGED <<manager, launchers, requestedPort, calls, launcherOf, launches,
                   pageLoad>>

\* waitUntilReady: poll() counts one more in retries and opens the connection
Poll ==
  \E call \in DOMAIN launchPc :
    /\ launchPc[call] = "poll"
    /\ retries' = [retries EXCEPT ![launcherOf[call]] = @ + 1]
    /\ launchPc' = [launchPc EXCEPT ![call] = "connect"]
    /\ UNCHANGED <<manager, launchers, requestedPort, chrome, waited, calls, launcherOf,
                   launchError, launches, pageLoad>>

\* the connect event of the connection poll() opened: waitUntilReady resolves, and so
\* does the launch
Connected ==
  \E call \in DOMAIN launchPc :
    /\ launchPc[call] = "connect"
    /\ launchPc' = [launchPc EXCEPT ![call] = "resolved"]
    /\ UNCHANGED <<manager, launcherFields, calls, launcherOf, launchError, launches,
                   pageLoad>>

\* the error event of the connection poll() opened: with retries > maxPortCheckRetries
\* waitUntilReady rejects with that error, otherwise it waits pollInterval
ConnectionFailed ==
  \E call \in DOMAIN launchPc, code \in ConnectionErrorCodes :
    /\ launchPc[call] = "connect"
    /\ IF retries[launcherOf[call]] > maxPortCheckRetries
       THEN /\ launchError' = [launchError EXCEPT ![call] = code]
            /\ launchPc' = [launchPc EXCEPT ![call] = "retry"]
       ELSE /\ launchPc' = [launchPc EXCEPT ![call] = "delay"]
            /\ UNCHANGED launchError
    /\ UNCHANGED <<manager, launcherFields, calls, launcherOf, launches, pageLoad>>

\* delay(this.pollInterval).then(poll)
DelayElapsed ==
  \E call \in DOMAIN launchPc :
    /\ launchPc[call] = "delay"
    /\ waited' = [waited EXCEPT ![launcherOf[call]] = @ + pollInterval]
    /\ launchPc' = [launchPc EXCEPT ![call] = "poll"]
    /\ UNCHANGED <<manager, launchers, requestedPort, chrome, retries, calls, launcherOf,
                   launchError, launches, pageLoad>>

\* retry(err) up to await this.instance.kill(): the rejection made when err.code is not
\* 'ECONNREFUSED' is not returned and changes nothing; attempts is counted up; past
\* maxLaunchAttempts the launch is rejected with err, otherwise kill() of
\* this.instance kills its Chrome, deletes this.chrome and waits for the close event
Retry ==
  \E call \in DOMAIN launchPc :
    /\ launchPc[call] = "retry"
    /\ attempts' = attempts + 1
    /\ IF relaunches(attempts + 1)
       THEN /\ launchPc' = [launchPc EXCEPT ![call] = "kill"]
            /\ chrome' = [chrome EXCEPT ![instance] = FALSE]
       ELSE /\ launchPc' = [launchPc EXCEPT ![call] = "rejected"]
            /\ UNCHANGED chrome
    /\ UNCHANGED <<opts, isSigintBound, instance, launchers, requestedPort, retries,
                   waited, calls, launcherOf, launchError, launches, pageLoad>>

\* retry(err) from the end of this.instance.kill(): this.instance is dropped, and
\* launchInstance() is called again
Relaunch ==
  \E call \in DOMAIN launchPc :
    /\ launchPc[call] = "kill"
    /\ launches' = [launches EXCEPT ![call] = @ + 1]
    /\ launcherOf' = [launcherOf EXCEPT ![call] = launchers + 1]
    /\ launchPc' = [launchPc EXCEPT ![call] = "launch"]
    /\ launchError' = [launchError EXCEPT ![call] = NoError]
    /\ UNCHANGED opts
    /\ launchInstance
    /\ UNCHANGED <<attempts, calls, pageLoad>>

\* the SIGINT handler: await this.instance.kill()
Sigint ==
  /\ isSigintBound
  /\ instance # 0
  /\ chrome' = [chrome EXCEPT ![instance] = FALSE]
  /\ UNCHANGED <<manager, launchers, requestedPort, retries, waited, calls, launchPc,
                 launcherOf, launchError, launches, pageLoad>>

\* kill() of a LaunchedChrome that a launch() resolved with: this.instance.kill(), on
\* the Launcher that is this.instance now
KillLaunched ==
  /\ \E call \in DOMAIN launchPc : launchPc[call] = "resolved"
  /\ instance # 0
  /\ chrome' = [chrome EXCEPT ![instance] = FALSE]
  /\ UNCHANGED <<manager, launchers, requestedPort, retries, waited, calls, launchPc,
                 launcherOf, launchError, launches, pageLoad>>

InitLaunch == Constructed(Input(NetworkGraph(<<{}>>, <<1>>, <<0>>), DefaultOptions))
NextLaunch ==
  \/ Launch
  \/ LauncherLaunch
  \/ Poll
  \/ Connected
  \/ ConnectionFailed
  \/ DelayElapsed
  \/ Retry
  \/ Relaunch
  \/ Sigint
  \/ KillLaunched
SpecLaunch == InitLaunch /\ [][NextLaunch]_vars

(***************************************************************************)
(* Properties of the scheduler                                             *)
(***************************************************************************)
InQueue(node) == node \in Range(nodesInQueue)
InProcess(node) == node \in Range(nodesInProcess)
Completed(node) == node \in Range(nodesCompleted)
connectionOf(node) == graph[node].record.connectionId

\* C1: at every point of estimate() the number of nodes in process is at most
\* min(configured maximumConcurrentRequests, maximumSaturatedConnections(rtt, throughput))
C1_InProcessWithinLimit ==
  Len(nodesInProcess) <=
    Min(options.maximumConcurrentRequests,
        (options.throughput * options.rtt) \div (8 * 1000 * TCP_SEGMENT_SIZE))

\* the limit is reached (and is not 0) while a queued NETWORK node whose connection is
\* free has been refused
C1_Witness ==
  /\ pc = "find"
  /\ maximumConcurrentRequests >= 1
  /\ Len(nodesInProcess) = maximumConcurrentRequests
  /\ \E node \in Range(nodesInQueue) :
       /\ graph[node].type = NETWORK
       /\ connectionOf(node) \notin Range(connectionsInUse)

C2_NoSharedConnection ==
  \A a, b \in Range(nodesInProcess) : a # b => connectionOf(a) # connectionOf(b)

C2_Step ==
  /\ \A node \in DOMAIN graph :
       \* a node is admitted only if its connection was not in use
       (~InProcess(node) /\ InProcess(node)') =>
          connectionOf(node) \notin Range(connectionsInUse)
  /\ \A id \in Range(connectionsInUse) :
       \* a connection leaves connectionsInUse only as the node using it completes
       id \notin Range(connectionsInUse') =>
          \E node \in Range(nodesInProcess) :
            connectionOf(node) = id /\ ~Completed(node) /\ Completed(node)'

\* C2: no two nodes in process have the same connectionId; a queued node whose
\* connection is in use is never admitted, and a connection leaves connectionsInUse
\* only when the node using it completes
C2_OneNodePerConnection == [](C2_NoSharedConnection) /\ [][C2_Step]_vars

\* a queued node has been refused only because its connection is in use
C2_Witness ==
  /\ pc = "find"
  /\ Len(nodesInProcess) < maximumConcurrentRequests
  /\ \E node \in Range(nodesInQueue) :
       /\ graph[node].type = NETWORK
       /\ connectionOf(node) \in Range(connectionsInUse)

\* 0 unqueued, 1 ready, 2 in flight, 3 completed
stage(node) ==
  IF Completed(node) THEN 3
  ELSE IF InProcess(node) THEN 2
  ELSE IF InQueue(node) THEN 1
  ELSE 0

C3_InOneSet ==
  \A node \in DOMAIN graph :
    /\ ~(InQueue(node) /\ InProcess(node))
    /\ ~(InQueue(node) /\ Completed(node))
    /\ ~(InProcess(node) /\ Completed(node))

C3_Step == \A node \in DOMAIN graph : stage(node)' \in {stage(node), stage(node) + 1}

\* C3: a node is in at most one of nodesInQueue, nodesInProcess, nodesCompleted and
\* moves only unqueued -> ready -> in flight -> completed, one stage at a time
C3_OneWayLifecycle == [](C3_InOneSet) /\ [][C3_Step]_vars

\* a completed node was offered to the queue again: on a cycle through the root the
\* last node to complete has the completed root as a dependent
C3_Witness ==
  /\ CycleThroughRoot(graph)
  /\ pc = "returned"
  /\ \A node \in DOMAIN graph : Completed(node)
  /\ Cardinality(DOMAIN graph) >= 2

\* C4: whenever estimate() returns, every node of the graph is completed and the
\* queue and the set of nodes in process are empty
C4_AllCompletedOnReturn ==
  pc = "returned" =>
    /\ \A node \in DOMAIN graph : Completed(node)
    /\ nodesInQueue = <<>>
    /\ nodesInProcess = <<>>

\* estimate() has returned and left a node of the graph uncompleted
C4_Witness ==
  /\ pc = "returned"
  /\ \E node \in DOMAIN graph : ~Completed(node)

\* C5: the endTime of a completed node is at least the endTime of each of its
\* dependencies
C5_EndTimeAfterDependencies ==
  \A node \in DOMAIN graph :
    \A dependency \in getDependencies(graph, node) :
      (Completed(node) /\ Completed(dependency)) =>
        nodeAuxiliaryData[node].endTime >= nodeAuxiliaryData[dependency].endTime

\* a node has completed before one of its dependencies
C5_Witness ==
  \E node \in DOMAIN graph :
    \E dependency \in getDependencies(graph, node) :
      /\ Completed(node)
      /\ Completed(dependency)
      /\ nodeAuxiliaryData[node].endTime < nodeAuxiliaryData[dependency].endTime

\* the state a new TcpConnection of the estimator is in
fresh(c) ==
  /\ ~c.warmed
  /\ c.congestionWindow = INITIAL_CONGESTION_WINDOW
  /\ c.availableThroughput = Quotient(options.throughput, 1)

\* C6: a second estimate() on the same graph and options returns the same total and
\* the same start and end time of every node, and starts from new connections: not
\* warmed, congestion window 10, the configured throughput
C6_SecondRunIdentical ==
  /\ (run = 2 /\ pc = "while" /\ depth = 0) =>
       \A id \in DOMAIN connections : fresh(connections[id])
  /\ (run = 2 /\ pc = "returned") => outcome = previous[1]

\* the second run has returned and, as the first did, leaves a warmed connection with
\* a changed congestion window and a divided throughput
C6_Witness ==
  /\ run = 2
  /\ pc = "returned"
  /\ totalElapsedTime > 0
  /\ \E id \in DOMAIN connections :
       /\ connections[id].warmed
       /\ connections[id].congestionWindow # INITIAL_CONGESTION_WINDOW
       /\ connections[id].availableThroughput # Quotient(options.throughput, 1)

\* C7: on a graph with a dependency cycle estimate() does not return: it ends with the
\* 'Maximum depth exceeded' error
C7_CycleEndsInDepthError ==
  HasCycle(graph) =>
    /\ pc # "returned"
    /\ pc = "thrown" => error = "Maximum depth exceeded: estimate"

\* estimate() has returned a total for a graph with a dependency cycle
C7_Witness ==
  /\ HasCycle(graph)
  /\ pc = "returned"
  /\ depth < MaximumDepth

\* every node but the root depends on the node before it and on nothing else
IsChain(g) ==
  /\ getDependencies(g, 1) = {}
  /\ \A node \in DOMAIN g : node > 1 => getDependencies(g, node) = {node - 1}

\* C8, for every graph: the total estimated at twice the throughput is at most the
\* total estimated at the throughput
C8_DoubledThroughputNotSlower ==
  (run = 2 /\ pc = "returned") => totalElapsedTime <= previous[1].totalElapsedTime

\* C8, for linear chains: when every NETWORK node depends only on the node before it,
\* the total estimated at twice the throughput is at most the total estimated at the
\* throughput
C8_DoubledThroughputNotSlowerOnChains ==
  (run = 2 /\ pc = "returned" /\ IsChain(graph)) =>
    totalElapsedTime <= previous[1].totalElapsedTime

\* a chain of two or more nodes has been estimated at both throughputs and the second
\* total is smaller
C8_Witness ==
  /\ run = 2
  /\ pc = "returned"
  /\ IsChain(graph)
  /\ Cardinality(DOMAIN graph) >= 2
  /\ totalElapsedTime < previous[1].totalElapsedTime

\* C9: the bytesDownloaded returned by the deadline queries made for a node sum to its
\* transferSize once it has completed, and the bytesDownloaded accumulated for a node
\* in process is at most its transferSize
C9_BytesSumToTransferSize ==
  /\ \A node \in Range(nodesCompleted) :
       bytesReturned[node] = graph[node].record.transferSize
  /\ \A node \in Range(nodesInProcess) :
       /\ nodeAuxiliaryData[node].bytesDownloaded <= graph[node].record.transferSize
       /\ bytesReturned[node] = nodeAuxiliaryData[node].bytesDownloaded

\* a node completed after steps of partial progress that downloaded part of it
C9_Witness ==
  \E node \in Range(nodesCompleted) :
    /\ nodeAuxiliaryData[node].bytesDownloaded > 0
    /\ nodeAuxiliaryData[node].bytesDownloaded < graph[node].record.transferSize
    /\ bytesReturned[node] = graph[node].record.transferSize

\* the connection and the query of the scenario: rtt 100, 1,638,400 bit/s, ssl, not
\* warmed, response time 0, calculateTimeToDownload(0)
C10_Scenario ==
  /\ tcp.rtt = 100
  /\ tcp.availableThroughput = Quotient(1638400, 1)
  /\ tcp.ssl
  /\ ~tcp.warmed
  /\ tcp.responseTime = 0
  /\ Len(lastCalculation) = 1
  /\ lastCalculation[1].bytesToDownload = 0
  /\ lastCalculation[1].timeAlreadyElapsed = 0
  /\ lastCalculation[1].maximumTimeToElapse = Infinity

\* C10, with 250 ms: the query returns timeElapsed = 250 and bytesDownloaded = 0
C10_ZeroBytesTakes250 ==
  C10_Scenario =>
    /\ lastCalculation[1].result.timeElapsed = 250
    /\ lastCalculation[1].result.bytesDownloaded = 0

\* C10, with 300 ms: the query returns timeElapsed = 300 (handshake 150, TLS 100,
\* response time 0, one-way latency of the response 50) and bytesDownloaded = 0, with
\* the 3 round trips of the handshake and none of the growth loop
C10_ZeroBytesTakes300 ==
  C10_Scenario =>
    /\ lastCalculation[1].result.timeElapsed = 300
    /\ lastCalculation[1].result.bytesDownloaded = 0
    /\ lastCalculation[1].result.roundTrips = 3

C10_Witness == C10_Scenario /\ tcp.congestionWindow = INITIAL_CONGESTION_WINDOW

(***************************************************************************)
(* Properties of calculateTimeToDownload                                   *)
(***************************************************************************)
\* the residual time to first byte of the last query
residualTTFB == Max(timeToFirstByte(tcp) - lastCalculation[1].timeAlreadyElapsed, 0)

\* the round trips the growth loop needs to transfer all of bytesToDownload
roundTripsToTransferAll ==
  (calculateTimeToDownload(tcp, lastCalculation[1].bytesToDownload,
                           lastCalculation[1].timeAlreadyElapsed, Infinity).timeElapsed
     - residualTTFB) \div tcp.rtt

\* the least k >= 0 with k * rtt > D - r, 0 when D - r < 0
roundTripsToPassDeadline ==
  LET left == lastCalculation[1].maximumTimeToElapse - residualTTFB
  IN IF left < 0 THEN 0 ELSE (left \div tcp.rtt) + 1

DeadlineQuery ==
  /\ Len(lastCalculation) = 1
  /\ IsFinite(lastCalculation[1].maximumTimeToElapse)

\* C11: with a finite deadline D and residual TTFB r the download-phase time
\* timeElapsed - r is k round trips, k the smaller of the round trips needed to transfer
\* all the bytes and the least k >= 0 with k * rtt > D - r; and timeElapsed is at most
\* D + rtt when D >= r
C11_DeadlineStopsWithinOneRoundTrip ==
  DeadlineQuery =>
    /\ lastCalculation[1].result.timeElapsed - residualTTFB =
         Min(roundTripsToTransferAll, roundTripsToPassDeadline) * tcp.rtt
    /\ lastCalculation[1].maximumTimeToElapse >= residualTTFB =>
         lastCalculation[1].result.timeElapsed
           <= lastCalculation[1].maximumTimeToElapse + tcp.rtt

\* a query the deadline has stopped short of the whole transfer, where D - r is a
\* whole number of round trips: the loop has run one round trip past it
C11_Witness ==
  /\ DeadlineQuery
  /\ lastCalculation[1].maximumTimeToElapse >= residualTTFB
  /\ (lastCalculation[1].maximumTimeToElapse - residualTTFB) % tcp.rtt = 0
  /\ roundTripsToPassDeadline < roundTripsToTransferAll
  /\ lastCalculation[1].result.bytesDownloaded < lastCalculation[1].bytesToDownload
  /\ lastCalculation[1].result.timeElapsed =
       lastCalculation[1].maximumTimeToElapse + tcp.rtt

C12_Step ==
  /\ lastCalculation' # <<>> => tcp' = tcp
  /\ (/\ lastCalculation # <<>>
      /\ lastCalculation' # <<>>
      /\ lastCalculation'[1].bytesToDownload = lastCalculation[1].bytesToDownload
      /\ lastCalculation'[1].timeAlreadyElapsed = lastCalculation[1].timeAlreadyElapsed
      /\ lastCalculation'[1].maximumTimeToElapse = lastCalculation[1].maximumTimeToElapse)
       => lastCalculation'[1].result = lastCalculation[1].result

\* C12: a step that leaves the result of a query (every step but the setters) leaves
\* every field of the connection as it was, and a query with the arguments of the one
\* before it returns the same result
C12_QueryLeavesConnectionUnchanged == [][C12_Step]_vars

\* a query has returned a congestion window other than the one the connection stores
C12_Witness ==
  /\ Len(lastCalculation) = 1
  /\ lastCalculation[1].result.congestionWindow # tcp.congestionWindow
  /\ lastCalculation[1].bytesToDownload > 0

FirstTransferQuery ==
  /\ Len(lastCalculation) = 1
  /\ lastCalculation[1].timeAlreadyElapsed = 0
  /\ lastCalculation[1].maximumTimeToElapse = Infinity

\* C13: calculateTimeToDownload(b, 0) on the connection warmed takes strictly less than
\* on the same connection not warmed: rtt less without SSL, 2 * rtt less with SSL
C13_WarmedIsFaster ==
  FirstTransferQuery =>
    LET b == lastCalculation[1].bytesToDownload
        warm == calculateTimeToDownload(setWarmed(tcp, TRUE), b, 0, Infinity)
        cold == calculateTimeToDownload(setWarmed(tcp, FALSE), b, 0, Infinity)
    IN /\ lastCalculation[1].result = (IF tcp.warmed THEN warm ELSE cold)
       /\ warm.timeElapsed < cold.timeElapsed
       /\ cold.timeElapsed - warm.timeElapsed = (IF tcp.ssl THEN 2 * tcp.rtt ELSE tcp.rtt)

\* the first-transfer query on a warmed connection without SSL, the growth loop run
C13_Witness ==
  /\ FirstTransferQuery
  /\ tcp.warmed
  /\ ~tcp.ssl
  /\ lastCalculation[1].result.timeElapsed > timeToFirstByte(tcp)

\* C14, at all times: the congestion window every connection stores is at most the cap
\* _computeMaximumCongestionWindowInSegments returns for the throughput the connection
\* has
C14_StoredWindowWithinCap ==
  \A id \in DOMAIN connections :
    connections[id].congestionWindow <=
      computeMaximumCongestionWindowInSegments(connections[id])

C14_Step ==
  (pc = "progress" /\ iter # <<>> /\ graph[Head(iter)].type = NETWORK) =>
    LET id == connectionOf(Head(iter))
    IN connections'[id].congestionWindow <=
         Max(computeMaximumCongestionWindowInSegments(connections'[id]), 1)

\* C14, for the window the scheduler stores: the congestion window that
\* _updateProgressMadeInTimePeriod stores on a connection is at most the larger of 1 and
\* the cap _computeMaximumCongestionWindowInSegments returns for the throughput the
\* connection has at that step
C14_CommittedWindowWithinCap == [][C14_Step]_vars

\* a connection whose throughput a rebalance has divided stores, after the progress
\* step of its node, a window equal to the lowered cap
C14_Witness ==
  /\ pc = "progress"
  /\ \E node \in Range(nodesInProcess) \ Range(iter) :
       LET c == connections[connectionOf(node)]
       IN /\ c.availableThroughput.den >= 2
          /\ c.congestionWindow = computeMaximumCongestionWindowInSegments(c)
          /\ c.congestionWindow < INITIAL_CONGESTION_WINDOW

\* C15, for every query: the congestionWindow returned for bytesToDownload > 0 is at
\* least 1
C15_ReturnedWindowAtLeastOne ==
  (Len(lastCalculation) = 1 /\ lastCalculation[1].bytesToDownload > 0) =>
    lastCalculation[1].result.congestionWindow >= 1

\* C15, by whether the growth loop runs: the congestionWindow returned for
\* bytesToDownload > 0 is at least 1 when the loop has run a round trip, and is the
\* smaller of the stored window and the cap
\* _computeMaximumCongestionWindowInSegments returns when the loop has not run
C15_ReturnedWindowAtLeastOneOnceGrown ==
  (Len(lastCalculation) = 1 /\ lastCalculation[1].bytesToDownload > 0) =>
    IF lastCalculation[1].result.timeElapsed > residualTTFB
      THEN lastCalculation[1].result.congestionWindow >= 1
      ELSE lastCalculation[1].result.congestionWindow =
             Min(tcp.congestionWindow, computeMaximumCongestionWindowInSegments(tcp))

\* the cap is zero and the loop has run: the window returned is 1
C15_Witness ==
  /\ Len(lastCalculation) = 1
  /\ lastCalculation[1].bytesToDownload > 0
  /\ computeMaximumCongestionWindowInSegments(tcp) = 0
  /\ lastCalculation[1].result.timeElapsed > residualTTFB
  /\ lastCalculation[1].result.congestionWindow = 1

(***************************************************************************)
(* Properties of the scheduler on particular graphs                        *)
(***************************************************************************)
\* a chain 1 <- 2 <- 3 of NETWORK nodes on one connection
IsChainOfThreeOnOneConnection(g) ==
  /\ DOMAIN g = 1..3
  /\ IsChain(g)
  /\ \A node \in DOMAIN g :
       g[node].type = NETWORK /\ g[node].record.connectionId = g[1].record.connectionId

\* the connection of the chain at the full configured throughput, not warmed for the
\* first node, warmed for the others, with the congestion window its predecessor left
chainConnection(warmed, congestionWindow) ==
  [warmed |-> warmed,
   ssl |-> graph[1].record.scheme = "https",
   rtt |-> options.rtt,
   availableThroughput |-> Quotient(options.throughput, 1),
   responseTime |-> connections[graph[1].record.connectionId].responseTime,
   congestionWindow |-> congestionWindow]

\* C16: for a chain A <- B <- C on one connection estimate() returns the sum of the
\* three transfer times at the full throughput, A's on the cold connection, B's and C's
\* on the warmed connection, and B and C start when their predecessor ends
C16_ChainIsSumOfTransfers ==
  (pc = "returned" /\ IsChainOfThreeOnOneConnection(graph)) =>
    LET a == calculateTimeToDownload(chainConnection(FALSE, INITIAL_CONGESTION_WINDOW),
                                     graph[1].record.transferSize, 0, Infinity)
        b == calculateTimeToDownload(chainConnection(TRUE, a.congestionWindow),
                                     graph[2].record.transferSize, 0, Infinity)
        c == calculateTimeToDownload(chainConnection(TRUE, b.congestionWindow),
                                     graph[3].record.transferSize, 0, Infinity)
    IN /\ totalElapsedTime = a.timeElapsed + b.timeElapsed + c.timeElapsed
       /\ nodeAuxiliaryData[1].startTime = 0
       /\ nodeAuxiliaryData[1].endTime = a.timeElapsed
       /\ nodeAuxiliaryData[2].startTime = nodeAuxiliaryData[1].endTime
       /\ nodeAuxiliaryData[2].endTime = a.timeElapsed + b.timeElapsed
       /\ nodeAuxiliaryData[3].startTime = nodeAuxiliaryData[2].endTime
       /\ nodeAuxiliaryData[3].endTime = totalElapsedTime

\* the estimate of a chain of three nodes that all transfer bytes has returned
C16_Witness ==
  /\ pc = "returned"
  /\ IsChainOfThreeOnOneConnection(graph)
  /\ \A node \in DOMAIN graph : graph[node].record.transferSize > 0
  /\ connections[graph[1].record.connectionId].warmed
  /\ totalElapsedTime > 0

\* a root with 20 dependents and nothing else, every node on its own connection
IsFanOutOfTwenty(g) ==
  /\ DOMAIN g = 1..21
  /\ getDependencies(g, 1) = {}
  /\ \A node \in 2..21 : getDependencies(g, node) = {1}
  /\ \A m, n \in DOMAIN g :
       g[m].type = NETWORK /\ (m # n => g[m].record.connectionId # g[n].record.connectionId)

Started(node) == node \in DOMAIN nodeAuxiliaryData

\* the siblings admitted in the step after the root completed
firstBatch ==
  {node \in 2..21 : Started(node) /\ Completed(1)
                    /\ nodeAuxiliaryData[node].startTime = nodeAuxiliaryData[1].endTime}

\* C17: of 20 siblings on 20 connections exactly min(10, maximumSaturatedConnections)
\* are admitted in the step after the root completes (the root completes in iteration
\* 1, the admissions of iteration 2 are over once its for-of loop has ended), and a
\* sibling admitted later starts no earlier than the smallest endTime of those
C17_FanOutInBatches ==
  (IsFanOutOfTwenty(graph) /\ options.maximumConcurrentRequests = 10 /\ Completed(1)) =>
    /\ (depth > 2 \/ (depth = 2 /\ ~(pc = "start" /\ iter # <<>>))) =>
         Cardinality(firstBatch) =
           Min(10, (options.throughput * options.rtt) \div (8 * 1000 * 1460))
    /\ \A node \in 2..21 :
         (Started(node) /\ node \notin firstBatch) =>
           \E first \in firstBatch :
             /\ Completed(first)
             /\ nodeAuxiliaryData[first].endTime <= nodeAuxiliaryData[node].startTime

\* the fan-out has been estimated at the defaults: 10 siblings started with the end of
\* the root and the other 10 later
C17_Witness ==
  /\ IsFanOutOfTwenty(graph)
  /\ options = ProgramDefaults
  /\ pc = "returned"
  /\ Cardinality(firstBatch) = 10
  /\ Cardinality({node \in 2..21 : Started(node) /\ node \notin firstBatch}) = 10

\* the measured response time of a record: receiveHeadersEnd - sendEnd, a measured 0
\* included, and Infinity when the record has no timing (getResponseTime differs on 0)
measuredResponseTime(record) ==
  IF record.timing = NoTiming THEN Infinity ELSE record.timing[2] - record.timing[1]

\* the least measured response time of the records of a connection
leastMeasuredResponseTime(id) ==
  LET measured == {measuredResponseTime(graph[node].record) :
                     node \in {n \in traverse(graph) :
                                 graph[n].type = NETWORK /\ connectionOf(n) = id}}
  IN CHOOSE m \in measured : \A other \in measured : m <= other

\* C18: the connection created for a connectionId has the least measured response time
\* of its records (0 when a record measures 0), and the configured default only when
\* that minimum is not finite
C18_ResponseTimeIsMinimum ==
  (pc = "while" /\ depth = 0) =>
    \A id \in DOMAIN connections :
      connections[id].responseTime =
        (IF IsFinite(leastMeasuredResponseTime(id))
         THEN leastMeasuredResponseTime(id)
         ELSE options.defaultResponseTime)

\* the connections have been created and one has a record that measures 0 and another
\* that measures more
C18_Witness ==
  /\ pc = "while"
  /\ depth = 0
  /\ \E id \in DOMAIN connections :
       /\ leastMeasuredResponseTime(id) = 0
       /\ connections[id].responseTime # 0
       /\ connections[id].responseTime # options.defaultResponseTime

C19_Step ==
  \A id \in DOMAIN connections \cap DOMAIN connections' :
    id \notin Range(connectionsInUse) =>
      connections'[id].availableThroughput = connections[id].availableThroughput

\* C19: after _updateNetworkCapacity every connection in use has the configured
\* throughput divided by the number of nodes in process, there are as many connections
\* in use as nodes in process (so the throughputs sum to the configured throughput), and
\* no step changes the throughput of a connection that is not in use
C19_ThroughputIsShared ==
  /\ [](pc = "find" =>
          /\ \A id \in Range(connectionsInUse) :
               connections[id].availableThroughput =
                 [num |-> options.throughput, den |-> Len(nodesInProcess)]
          /\ Len(connectionsInUse) = Len(nodesInProcess)
          /\ Cardinality(Range(connectionsInUse)) = Len(connectionsInUse))
  /\ [][C19_Step]_vars

\* after a rebalance two connections in use have half the throughput each and a
\* connection no longer in use keeps the share it last had
C19_Witness ==
  /\ pc = "find"
  /\ Len(nodesInProcess) = 2
  /\ \E id \in DOMAIN connections :
       /\ id \notin Range(connectionsInUse)
       /\ connections[id].warmed
       /\ connections[id].availableThroughput.den \notin {1, 2}

C20_Step ==
  /\ (pc = "find" /\ pc' = "progress" /\ nodesInProcess # <<>>) =>
       /\ iter' = nodesInProcess
       /\ \E node \in Range(nodesInProcess) :
            nodeAuxiliaryData'[node].estimatedTimeElapsed = minimumTime'
       /\ \A node \in Range(nodesInProcess) :
            nodeAuxiliaryData'[node].estimatedTimeElapsed >= minimumTime'
  /\ (pc = "progress" /\ pc' = "progress" /\ iter # <<>>) =>
       \A node \in DOMAIN graph :
         Completed(node)' <=>
           IF node = Head(iter)
           THEN nodeAuxiliaryData[node].estimatedTimeElapsed = minimumTime
           ELSE Completed(node)

\* C20: the step length is the least stored estimate of the nodes in process, every node
\* in process is visited, and a visited node completes exactly when its stored estimate
\* equals the step length; so at the end of the iteration no node in process has the
\* least estimate and at least one node has completed
C20_FinishersAreTheMinima ==
  /\ [][C20_Step]_vars
  /\ [](pc = "progress" /\ iter = <<>> /\ IsFinite(minimumTime) =>
          /\ \A node \in Range(nodesInProcess) :
               nodeAuxiliaryData[node].estimatedTimeElapsed > minimumTime
          /\ \E node \in Range(nodesCompleted) :
               /\ nodeAuxiliaryData[node].estimatedTimeElapsed = minimumTime
               /\ nodeAuxiliaryData[node].endTime = totalElapsedTime)

\* an iteration has ended in which two nodes tied at the least estimate both completed
\* and a node with a larger estimate stays in process
C20_Witness ==
  /\ pc = "progress"
  /\ iter = <<>>
  /\ nodesInProcess # <<>>
  /\ \E m, n \in Range(nodesCompleted) :
       /\ m # n
       /\ nodeAuxiliaryData[m].endTime = totalElapsedTime
       /\ nodeAuxiliaryData[n].endTime = totalElapsedTime
       /\ nodeAuxiliaryData[m].startTime < totalElapsedTime
       /\ nodeAuxiliaryData[n].startTime < totalElapsedTime

(***************************************************************************)
(* Properties of the bookkeeping of the nodes in process                   *)
(***************************************************************************)
\* C21: timeElapsedOvershoot of a started node is never negative, whatever partial
\* progress it made and however the throughput of its connection changed meanwhile
C21_OvershootNeverNegative ==
  \A node \in DOMAIN nodeAuxiliaryData :
    nodeAuxiliaryData[node].timeElapsedOvershoot >= 0

\* a node in process has made partial progress in two iterations at least, another node
\* completed after it started, and it has a positive overshoot
C21_Witness ==
  /\ pc = "progress"
  /\ iter = <<>>
  /\ \E node \in Range(nodesInProcess) :
       /\ nodeAuxiliaryData[node].timeElapsedOvershoot > 0
       /\ nodeAuxiliaryData[node].bytesDownloaded > 0
       /\ \E other \in Range(nodesCompleted) :
            /\ nodeAuxiliaryData[other].endTime > nodeAuxiliaryData[node].startTime
            /\ nodeAuxiliaryData[other].endTime < totalElapsedTime

\* C22: after _updateNetworkCapacity the maximum congestion window of every connection
\* in use, computed from its share of the throughput, is 1 segment at least
C22_WindowOfShareAtLeastOne ==
  pc = "find" =>
    \A id \in Range(connectionsInUse) :
      computeMaximumCongestionWindowInSegments(connections[id]) >= 1

\* as many nodes are in process as maximumSaturatedConnections allows, the throughput
\* has been shared among their connections, and a connection's maximum window is 0
C22_Witness ==
  /\ pc = "find"
  /\ Len(nodesInProcess) = maximumSaturatedConnections(options.rtt, options.throughput)
  /\ maximumConcurrentRequests = Len(nodesInProcess)
  /\ \E id \in Range(connectionsInUse) :
       /\ connections[id].availableThroughput =
            [num |-> options.throughput, den |-> Len(nodesInProcess)]
       /\ computeMaximumCongestionWindowInSegments(connections[id]) = 0

(***************************************************************************)
(* Properties of the end of estimate()                                     *)
(***************************************************************************)
\* a node that is not a NETWORK node is in the queue
CpuNodeReady == \E node \in DOMAIN graph : graph[node].type # NETWORK /\ InQueue(node)

C23_Step ==
  \A node \in DOMAIN graph :
    (graph[node].type # NETWORK /\ InQueue(node)) => InQueue(node)'

\* C23: a node that is not a NETWORK node is never in process and never completed, and
\* once in the queue it stays there; estimate() never throws 'Unsupported', does not
\* return while such a node is in the queue, and ends with 'Maximum depth exceeded'
C23_CpuNodeEndsInDepthError ==
  /\ [](\A node \in DOMAIN graph :
          graph[node].type # NETWORK => ~InProcess(node) /\ ~Completed(node))
  /\ [][C23_Step]_vars
  /\ [](error # "Unsupported")
  /\ [](CpuNodeReady => pc # "returned")
  /\ (CpuNodeReady ~> (pc = "thrown" /\ error = "Maximum depth exceeded: estimate"))

\* estimate() has thrown 'Maximum depth exceeded' with a CPU node still in the queue
\* after the NETWORK nodes it depends on have completed
C23_Witness ==
  /\ pc = "thrown"
  /\ error = "Maximum depth exceeded: estimate"
  /\ depth = MaximumDepth + 1
  /\ \E node \in DOMAIN graph :
       /\ graph[node].type # NETWORK
       /\ InQueue(node)
       /\ getDependencies(graph, node) # {}
       /\ \A dependency \in getDependencies(graph, node) : Completed(dependency)

\* the graph is acyclic, all its nodes are NETWORK nodes that the root reaches, and
\* one request at least may be in process
NetworkDag ==
  /\ ~HasCycle(graph)
  /\ traverse(graph) = DOMAIN graph
  /\ \A node \in DOMAIN graph : graph[node].type = NETWORK
  /\ maximumConcurrentRequests >= 1

\* C24: on such a graph of N nodes the loop runs N times at most, every iteration
\* completes a node, nothing is thrown, and estimate() returns
C24_ReturnsWithinNIterations ==
  /\ [](NetworkDag =>
          /\ depth <= Len(graph)
          /\ pc # "thrown"
          /\ pc \in {"while", "returned"} => Len(nodesCompleted) >= depth)
  /\ (NetworkDag ~> pc = "returned")

\* estimate() has returned on a graph of 3 nodes after 3 iterations
C24_Witness ==
  /\ NetworkDag
  /\ pc = "returned"
  /\ Len(graph) = 3
  /\ depth = 3
  /\ Len(nodesCompleted) = 3

(***************************************************************************)
(* Properties of the clock of estimate()                                   *)
(***************************************************************************)
\* an iteration of the loop has ended
EndOfIteration == pc = "progress" /\ iter = <<>>

\* C25: at the end of every iteration, for every node in process, timeElapsed minus
\* timeElapsedOvershoot is the time that has passed on the clock since the node started
C25_ChargedTimeIsClockTime ==
  EndOfIteration =>
    \A node \in Range(nodesInProcess) :
      nodeAuxiliaryData[node].timeElapsed - nodeAuxiliaryData[node].timeElapsedOvershoot
        = totalElapsedTime - nodeAuxiliaryData[node].startTime

\* at the end of an iteration a node that started after time 0 has made partial progress
\* in two iterations at least and has a positive overshoot
C25_Witness ==
  /\ EndOfIteration
  /\ \E node \in Range(nodesInProcess) :
       /\ nodeAuxiliaryData[node].startTime > 0
       /\ nodeAuxiliaryData[node].timeElapsedOvershoot > 0
       /\ \E other \in Range(nodesCompleted) :
            /\ nodeAuxiliaryData[other].endTime > nodeAuxiliaryData[node].startTime
            /\ nodeAuxiliaryData[other].endTime < totalElapsedTime

(***************************************************************************)
(* Properties of the Chrome launcher                                       *)
(***************************************************************************)
\* retry(err) of a launch() runs for an error other than 'ECONNREFUSED': the launch is
\* rejected with that error, and no Launcher is made or killed
C26_Step ==
  \A call \in DOMAIN launchPc :
    (/\ launchPc[call] = "retry"
     /\ launchError[call] # "ECONNREFUSED"
     /\ launchPc'[call] # "retry") =>
      /\ launchPc'[call] = "rejected"
      /\ launchError'[call] = launchError[call]
      /\ launches'[call] = launches[call]
      /\ UNCHANGED <<instance, launchers, chrome>>

\* C26: retry relaunches only when the error code is 'ECONNREFUSED': for another error
\* it neither kills the instance nor calls launchInstance again, and the launch fails
\* with that error
C26_RelaunchOnlyOnConnectionRefused ==
  /\ [](\A call \in DOMAIN launchPc :
          launchPc[call] = "kill" => launchError[call] = "ECONNREFUSED")
  /\ [][C26_Step]_vars

\* retry(err) of a launch() whose Launcher.launch() failed with EACCES has counted
\* attempts up to 2, has killed the Chrome of this.instance and waits to relaunch
C26_Witness ==
  \E call \in DOMAIN launchPc :
    /\ launchPc[call] = "kill"
    /\ launchError[call] = "EACCES"
    /\ attempts = 2
    /\ ~chrome[instance]

\* C27: waitUntilReady polls the port at most 10 times, and once 10 polls have failed
\* it rejects and does not wait for another
C27_AtMostTenPolls ==
  /\ \A launcher \in DOMAIN retries : retries[launcher] <= maxPortCheckRetries
  /\ \A call \in DOMAIN launchPc :
       launchPc[call] = "delay" => retries[launcherOf[call]] < maxPortCheckRetries

\* waitUntilReady has rejected with the error of its 11th poll, after 10 delays
C27_Witness ==
  \E call \in DOMAIN launchPc :
    /\ launchPc[call] = "retry"
    /\ retries[launcherOf[call]] = maxPortCheckRetries + 1
    /\ waited[launcherOf[call]] = maxPortCheckRetries * pollInterval
    /\ launchError[call] = "ECONNREFUSED"

\* retry(err) of a launch() runs after its third Launcher.launch() failed: the launch
\* is rejected with that error and no Launcher is created
C28_Step ==
  \A call \in DOMAIN launchPc :
    (/\ launchPc[call] = "retry"
     /\ launches[call] = maxLaunchAttempts
     /\ launchPc'[call] # "retry") =>
      /\ launchPc'[call] = "rejected"
      /\ launchError'[call] = launchError[call]
      /\ UNCHANGED <<instance, launchers>>

\* C28: one launch() makes at most maxLaunchAttempts = 3 Launcher.launch() calls, and
\* after the third failure it is rejected with the error and creates no Launcher,
\* whatever failures and kills came before
C28_AtMostThreeLaunches ==
  /\ [](\A call \in DOMAIN launches : launches[call] <= maxLaunchAttempts)
  /\ [][C28_Step]_vars

\* a launch() was rejected after its third Launcher.launch() failed, Chrome having
\* been spawned three times and killed twice
C28_Witness ==
  \E call \in DOMAIN launchPc :
    /\ launchPc[call] = "rejected"
    /\ launches[call] = maxLaunchAttempts
    /\ attempts = maxLaunchAttempts + 1
    /\ launchers = maxLaunchAttempts
    /\ chrome = <<FALSE, FALSE, TRUE>>
    /\ launchError[call] = "ECONNREFUSED"

====
